---- MODULE Spec2Model ----
(***************************************************************************)
(* TSDF voxel-grid kernels of open3d/t/geometry/kernel/TSDFVoxelGridImpl.h *)
(* (CPU build): Integrate, ExtractSurfacePoints, ExtractSurfaceMesh.       *)
(*                                                                         *)
(* Numbers.  Lengths are integers in millimetres.  A float quantity of the  *)
(* code is modelled by an exact integer or by an exact fraction num/den;   *)
(* float rounding is not modelled.  A stored tsdf is the integer           *)
(* tsdf * sdf_trunc, so that TsdfOne (= sdf_trunc) stands for 1.0.         *)
(*                                                                         *)
(* Scheduling.  A kernel launch is a bulk parallel map over [0, n).  It is *)
(* modelled by NWorkers workers; an idle worker takes the next workload    *)
(* index, and the steps of the workloads in flight interleave freely.      *)
(***************************************************************************)
EXTENDS Integers, Sequences, FiniteSets, TLC

VARIABLES
    kernel,        \* which kernel (and pass) is running, "idle" between calls
    next,          \* launcher: next workload index to hand out
    wk,            \* launcher: per worker, the workload in flight and its locals
    block_keys,    \* block slot -> (xb, yb, zb); allocated slots only
    block_values,  \* block slot -> voxel (xv, yv, zv) -> voxel record
    indices,       \* sequence of block slots to process
    frame,         \* Integrate: depth image, colour image, extrinsics
    pre_values,    \* Integrate: block_values when the current call started
    fresh,         \* Integrate: TRUE iff the grid was unobserved initially
    ncalls,        \* Integrate: completed calls
    targets,       \* Integrate: (workload, slot, voxel) decoded in this call
    weight_threshold, \* extraction: minimum weight to trust a voxel
    opts,          \* extraction: voxel type has colour, colours requested,
                   \*   normals requested
    valid_size,    \* ExtractSurfacePoints: in/out parameter valid_size
    max_count,     \* ExtractSurfacePoints: valid_size as captured by pass B
    count,         \* ExtractSurfacePoints: the atomic counter
    points,        \* ExtractSurfacePoints: output rows
    normals,       \* extraction: output rows
    colors,        \* extraction: output rows
    emit,          \* extraction: edges in the order of their fetch-add in
                   \*   the pass that writes them (row idx is position - 1)
    overrun,       \* extraction: writes past the end of a buffer
    call,          \* ExtractSurfacePoints: valid_size and buffer length as
                   \*   passed by the caller
    mesh_structure,  \* ExtractSurfaceMesh: position in indices -> voxel ->
                     \*   4 channels
    vtx_count,       \* ExtractSurfaceMesh: atomic vertex counter
    total_vtx_count, \* ExtractSurfaceMesh: count of pass 1
    vertices,        \* ExtractSurfaceMesh: output rows
    triangle_count,  \* ExtractSurfaceMesh: atomic triangle counter
    triangles,       \* ExtractSurfaceMesh: output rows
    tri_emit,        \* ExtractSurfaceMesh: (cube, tri) in the order of their
                     \*   fetch-add in pass 3
    fault,           \* ExtractSurfaceMesh: "none", or the invalid access made
    camera,            \* EstimateRange, RayCast: intrinsics, pose, h, w
    fragment_buffer,   \* EstimateRange: index -> fragment
    range_minmax_map,  \* EstimateRange: pixel (u, v) -> (near, far)
    frag_count,        \* EstimateRange: the counter as read after pass 0
    frag_emit,         \* EstimateRange: (block, offset, index) of every
                       \*   fragment written
    hashmap,           \* RayCast: backend of the hash map, device of the build
    vertex_map,        \* RayCast: pixel (x, y) -> vertex
    depth_map,         \* RayCast: pixel (x, y) -> depth
    color_map,         \* RayCast: pixel (x, y) -> colour
    normal_map         \* RayCast: pixel (x, y) -> normal

integrateVars == <<frame, pre_values, fresh, ncalls, targets>>

pointsVars == <<opts, valid_size, max_count, count, points,
                normals, colors, emit, overrun, call>>

meshVars == <<mesh_structure, vtx_count, total_vtx_count, vertices,
              triangle_count, triangles, tri_emit, fault>>

rangeVars == <<camera, fragment_buffer, range_minmax_map, frag_count,
               frag_emit>>

rayCastVars == <<hashmap, vertex_map, depth_map, color_map, normal_map>>

vars == <<kernel, next, wk, block_keys, block_values, indices,
          weight_threshold, integrateVars, pointsVars, meshVars,
          rangeVars, rayCastVars>>

-----------------------------------------------------------------------------
(* Bounds of the model *)

NWorkers == 2
MaxCalls == 2

Workers == 1..NWorkers

-----------------------------------------------------------------------------
(* Parameters of the kernels *)

resolution == 2
voxel_size == 10
sdf_trunc == 40
depth_scale == 500
depth_max == 3000

resolution3 == resolution * resolution * resolution
TsdfOne == sdf_trunc

Abs(a) == IF a < 0 THEN -a ELSE a
Min(a, b) == IF a < b THEN a ELSE b

\* static_cast<int64_t> of the fraction p/q: truncation toward zero
TruncDiv(p, q) ==
    LET s == IF (p < 0) # (q < 0) THEN -1 ELSE 1
    IN  s * (Abs(p) \div Abs(q))

\* round-to-nearest of the fraction p/q, q > 0
RoundDiv(p, q) == (2 * p + q) \div (2 * q)

Coords == 0..(resolution - 1)
Voxels == Coords \X Coords \X Coords

-----------------------------------------------------------------------------
(* Grid addressing *)

\* voxel_idx -> (xv, yv, zv), row-major, z fastest
WorkloadToCoord(voxel_idx) ==
    << (voxel_idx \div (resolution * resolution)) % resolution,
       (voxel_idx \div resolution) % resolution,
       voxel_idx % resolution >>

WorkloadBlockIdx(workload_idx) == workload_idx \div resolution3

WorkloadVoxelIdxBug(workload_idx) == workload_idx % resolution
WorkloadVoxelIdx(workload_idx) == workload_idx % resolution3

\* world coordinate (in voxels) of voxel vox in the block with key key
WorldCoord(key, vox) ==
    << key[1] * resolution + vox[1],
       key[2] * resolution + vox[2],
       key[3] * resolution + vox[3] >>

-----------------------------------------------------------------------------
(* Camera: TransformIndexer and the 2D indexer of the depth image *)

\* extrinsics (rotation rows rot, translation t) applied to a world voxel
\* coordinate scaled by voxel_size: camera coordinate in millimetres
RigidTransform(ext, p) ==
    << (ext.rot[1][1] * p[1] + ext.rot[1][2] * p[2] + ext.rot[1][3] * p[3])
            * voxel_size + ext.t[1],
       (ext.rot[2][1] * p[1] + ext.rot[2][2] * p[2] + ext.rot[2][3] * p[3])
            * voxel_size + ext.t[2],
       (ext.rot[3][1] * p[1] + ext.rot[3][2] * p[2] + ext.rot[3][3] * p[3])
            * voxel_size + ext.t[3] >>

\* (u, v) = (fx xc / zc + cx, fy yc / zc + cy) after static_cast<int64_t>;
\* only used where zc # 0
Project(K, pc) ==
    << TruncDiv(K.fx * pc[1] + K.cx * pc[3], pc[3]),
       TruncDiv(K.fy * pc[2] + K.cy * pc[3], pc[3]) >>

\* depth image rows are indexed by v, columns by u; a division by zc = 0
\* yields inf or NaN, which is inside no image
InBoundary(img, pc, uv) ==
    /\ pc[3] # 0
    /\ uv[2] \in 0..(Len(img) - 1)
    /\ uv[1] \in 0..(Len(img[1]) - 1)

\* raw depth / depth_scale, in millimetres
ScaledDepth(raw) == (raw * 1000) \div depth_scale

-----------------------------------------------------------------------------
(* Voxel record and its fused update *)

EmptyVoxel == [tsdf |-> 0, weight |-> 0, r |-> 0, g |-> 0, b |-> 0]

VoxelIntegrate(vx, sdf) ==
    [vx EXCEPT !.tsdf = RoundDiv(vx.weight * vx.tsdf + sdf, vx.weight + 1),
               !.weight = vx.weight + 1]

VoxelIntegrateColor(vx, sdf, rgb) ==
    [tsdf |-> RoundDiv(vx.weight * vx.tsdf + sdf, vx.weight + 1),
     weight |-> vx.weight + 1,
     r |-> RoundDiv(vx.weight * vx.r + rgb[1], vx.weight + 1),
     g |-> RoundDiv(vx.weight * vx.g + rgb[2], vx.weight + 1),
     b |-> RoundDiv(vx.weight * vx.b + rgb[3], vx.weight + 1)]

-----------------------------------------------------------------------------
(* Launcher: a pool of workers over the workload indices [0, n) *)

IdleWk == [pc |-> "idle", w |-> 0, loc |-> <<>>]

AllIdle == \A t \in Workers : wk[t].pc = "idle"

\* the workers are alike: the idle worker of least number takes the workload
TakesNext(t) ==
    /\ wk[t].pc = "idle"
    /\ \A u \in Workers : u < t => wk[u].pc # "idle"

-----------------------------------------------------------------------------
(* IntegrateCPU *)

IntegrateN == Len(indices) * resolution3

\* sdf = sdf < sdf_trunc ? sdf : sdf_trunc; sdf /= sdf_trunc
\* (the quotient is kept as the integer tsdf * sdf_trunc)
TruncateBug(sdf) == sdf
Truncate(sdf) == IF sdf < sdf_trunc THEN sdf ELSE sdf_trunc

RejectedBug(depth, zc, sdf) ==
    depth <= 0 \/ depth > depth_max \/ zc <= 0
RejectedBug2(depth, zc, sdf) ==
    depth <= 0 \/ zc <= 0 \/ sdf < -sdf_trunc
Rejected(depth, zc, sdf) ==
    depth <= 0 \/ depth > depth_max \/ zc <= 0 \/ sdf < -sdf_trunc

\* the index computations and the tests of one workload, up to the voxel update
IntegrateDecode(workload_idx) ==
    LET block_idx == indices[WorkloadBlockIdx(workload_idx) + 1]
        voxel_idx == WorkloadVoxelIdx(workload_idx)
        vox       == WorkloadToCoord(voxel_idx)
        p         == WorldCoord(block_keys[block_idx], vox)
        pc        == RigidTransform(frame.ext, p)
        uv        == IF pc[3] # 0 THEN Project(frame.K, pc) ELSE <<0, 0>>
        inb       == InBoundary(frame.depth, pc, uv)
        depth     == IF inb THEN ScaledDepth(frame.depth[uv[2] + 1][uv[1] + 1])
                     ELSE 0
        sdf       == depth - pc[3]
    IN  [block_idx |-> block_idx, vox |-> vox, uv |-> uv,
         update |-> inb /\ ~Rejected(depth, pc[3], sdf),
         sdf |-> Truncate(sdf)]

integrate_color == Len(frame.color) # 0

\* voxel_ptr->Integrate(sdf, r, g, b) or voxel_ptr->Integrate(sdf)
IntegrateVoxel(vx, d) ==
    IF integrate_color
    THEN VoxelIntegrateColor(vx, d.sdf, frame.color[d.uv[2] + 1][d.uv[1] + 1])
    ELSE VoxelIntegrate(vx, d.sdf)

\* a call starts: the launcher is set up over n workloads
IntegrateCall ==
    /\ kernel = "idle"
    /\ ncalls < MaxCalls
    /\ kernel' = "integrate"
    /\ next' = 0
    /\ pre_values' = block_values
    /\ targets' = {}
    /\ UNCHANGED <<wk, block_keys, block_values, indices, frame, fresh, ncalls,
                   weight_threshold, pointsVars,
                   meshVars>>
    /\ UNCHANGED <<rangeVars, rayCastVars>>

\* a worker takes the next workload and runs it up to the read of the voxel
IntegrateLoad(t) ==
    /\ kernel = "integrate"
    /\ TakesNext(t)
    /\ next < IntegrateN
    /\ LET d == IntegrateDecode(next)
       IN  /\ targets' = targets \cup
                  {[w |-> next, block_idx |-> d.block_idx, vox |-> d.vox]}
           /\ wk' = IF d.update
                    THEN [wk EXCEPT ![t] =
                            [pc |-> "store", w |-> next,
                             loc |-> <<block_values[d.block_idx][d.vox]>>]]
                    ELSE wk
    /\ next' = next + 1
    /\ UNCHANGED <<kernel, block_keys, block_values, indices, frame,
                   pre_values, fresh, ncalls, weight_threshold, pointsVars,
                   meshVars>>
    /\ UNCHANGED <<rangeVars, rayCastVars>>

\* the worker writes the updated voxel back (the update is not atomic)
IntegrateStore(t) ==
    /\ kernel = "integrate"
    /\ wk[t].pc = "store"
    /\ LET d == IntegrateDecode(wk[t].w)
       IN  block_values' =
               [block_values EXCEPT ![d.block_idx][d.vox] =
                    IntegrateVoxel(wk[t].loc[1], d)]
    /\ wk' = [wk EXCEPT ![t] = IdleWk]
    /\ UNCHANGED <<kernel, next, block_keys, indices, frame, pre_values,
                   fresh, ncalls, targets, weight_threshold, pointsVars,
                   meshVars>>
    /\ UNCHANGED <<rangeVars, rayCastVars>>

\* all workloads are done: the call returns
IntegrateReturn ==
    /\ kernel = "integrate"
    /\ next = IntegrateN
    /\ AllIdle
    /\ kernel' = "idle"
    /\ ncalls' = ncalls + 1
    /\ UNCHANGED <<next, wk, block_keys, block_values, indices, frame,
                   pre_values, fresh, targets, weight_threshold, pointsVars,
                   meshVars>>
    /\ UNCHANGED <<rangeVars, rayCastVars>>

\* the extraction kernels are not in use
PointsUnused ==
    /\ opts = [has_color |-> FALSE, colors |-> FALSE, normals |-> FALSE]
    /\ valid_size = 0
    /\ max_count = 0
    /\ count = 0
    /\ points = << >>
    /\ normals = << >>
    /\ colors = << >>
    /\ emit = << >>
    /\ overrun = {}
    /\ call = [valid_size |-> 0, len |-> 0]

MeshUnused ==
    /\ mesh_structure = << >>
    /\ vtx_count = 0
    /\ total_vtx_count = 0
    /\ vertices = << >>
    /\ triangle_count = 0
    /\ triangles = << >>
    /\ tri_emit = << >>
    /\ fault = "none"

\* the state of the kernels that a specification does not run
RangeUnused ==
    /\ camera = << >>
    /\ fragment_buffer = << >>
    /\ range_minmax_map = << >>
    /\ frag_count = 0
    /\ frag_emit = {}

RayCastUnused ==
    /\ hashmap = << >>
    /\ vertex_map = << >>
    /\ depth_map = << >>
    /\ color_map = << >>
    /\ normal_map = << >>

(* Inputs of the Integrate model *)

IntegrateKeys == (0 :> <<0, 0, 0>>) @@ (1 :> <<1, 0, 0>>) @@ (2 :> <<0, 0, 1>>)

IntegrateIndices == { <<0, 1>>, <<2, 0>>, <<1>> }

Identity == << <<1, 0, 0>>, <<0, 1, 0>>, <<0, 0, 1>> >>
RotZ90   == << <<0, -1, 0>>, <<1, 0, 0>>, <<0, 0, 1>> >>

Pose1 == [rot |-> Identity, t |-> <<0, 10, 100>>]
Pose2 == [rot |-> Identity, t |-> <<20, 10, 100>>]
Pose3 == [rot |-> Identity, t |-> <<-20, 0, -10>>]
Pose4 == [rot |-> RotZ90,   t |-> <<10, 0, 100>>]

Intrinsics == [fx |-> 5, fy |-> 5, cx |-> 0, cy |-> 0]

\* raw depth, rows v, columns u; ScaledDepth gives 60, 104, 150, 0,
\* 140 and 4000 mm
Depth1 == << <<30, 52>>, <<75, 0>> >>
Depth2 == << <<52, 2000>>, <<70, 75>> >>

NoColor == << >>
Color1  == << << <<255, 0, 0>>, <<0, 200, 100>> >>,
              << <<10, 20, 30>>, <<90, 90, 90>> >> >>

Frames ==
    { [depth |-> Depth1, color |-> NoColor, K |-> Intrinsics, ext |-> Pose1],
      [depth |-> Depth1, color |-> Color1,  K |-> Intrinsics, ext |-> Pose1],
      [depth |-> Depth2, color |-> Color1,  K |-> Intrinsics, ext |-> Pose2],
      [depth |-> Depth2, color |-> NoColor, K |-> Intrinsics, ext |-> Pose3],
      [depth |-> Depth1, color |-> Color1,  K |-> Intrinsics, ext |-> Pose4],
      [depth |-> Depth2, color |-> NoColor, K |-> Intrinsics, ext |-> Pose4] }

\* a grid observed before: every voxel has some weight, tsdf and colour
PriorVoxel(s, vox) ==
    [tsdf |-> ((s + vox[1] + 2 * vox[2] + 3 * vox[3]) % 5) * 20 - 40,
     weight |-> 1 + ((vox[1] + vox[2] + vox[3]) % 2),
     r |-> 50, g |-> 100 + s, b |-> 150]

InitIntegrate ==
    /\ RangeUnused
    /\ RayCastUnused
    /\ kernel = "idle"
    /\ next = 0
    /\ wk = [t \in Workers |-> IdleWk]
    /\ block_keys = IntegrateKeys
    /\ fresh \in BOOLEAN
    /\ block_values =
          [s \in DOMAIN IntegrateKeys |->
              [vox \in Voxels |->
                  IF fresh THEN EmptyVoxel ELSE PriorVoxel(s, vox)]]
    /\ indices \in IntegrateIndices
    /\ frame \in Frames
    /\ pre_values = block_values
    /\ ncalls = 0
    /\ targets = {}
    /\ weight_threshold = 0
    /\ PointsUnused
    /\ MeshUnused

NextIntegrate ==
    \/ IntegrateCall
    \/ \E t \in Workers : IntegrateLoad(t)
    \/ \E t \in Workers : IntegrateStore(t)
    \/ IntegrateReturn

SpecIntegrate == InitIntegrate /\ [][NextIntegrate]_vars

-----------------------------------------------------------------------------
(* Properties of Integrate *)

Range(f) == { f[i] : i \in DOMAIN f }

Slots == DOMAIN block_keys

\* what the frame shows of a voxel, from the camera model alone
Observation(slot, vox) ==
    LET pc == RigidTransform(frame.ext, WorldCoord(block_keys[slot], vox))
        uv == IF pc[3] # 0 THEN Project(frame.K, pc) ELSE <<0, 0>>
        inside == InBoundary(frame.depth, pc, uv)
        depth == IF inside
                 THEN ScaledDepth(frame.depth[uv[2] + 1][uv[1] + 1]) ELSE 0
    IN  [inside |-> inside, depth |-> depth, zc |-> pc[3],
         sdf |-> depth - pc[3]]

\* the observation is usable apart from the truncation test on sdf
Sighted(slot, vox) ==
    LET o == Observation(slot, vox)
    IN  /\ slot \in Range(indices)
        /\ o.inside
        /\ o.depth > 0 /\ o.depth <= depth_max
        /\ o.zc > 0

\* the frame observes the voxel: it passes every rejection test
Observed(slot, vox) ==
    Sighted(slot, vox) /\ Observation(slot, vox).sdf >= -sdf_trunc

\* min(sdf, sdf_trunc) / sdf_trunc of one observation, times TsdfOne
SdfOnce(slot, vox) ==
    LET sdf == Observation(slot, vox).sdf
    IN  IF sdf > sdf_trunc THEN TsdfOne ELSE (sdf * TsdfOne) \div sdf_trunc

\* C1: after N >= 1 calls with the same frame on an unobserved grid, every
\* observed voxel has weight N and the tsdf of a single observation.
C1_RepeatedFrame ==
    (kernel = "idle" /\ fresh /\ ncalls >= 1) =>
        \A slot \in Slots, vox \in Voxels :
            Observed(slot, vox) =>
                /\ block_values[slot][vox].weight = ncalls
                /\ block_values[slot][vox].tsdf = SdfOnce(slot, vox)

C1_Witness ==
    /\ kernel = "idle" /\ fresh /\ ncalls = MaxCalls
    /\ \E slot \in Slots, vox \in Voxels :
          /\ Observed(slot, vox)
          /\ Observation(slot, vox).sdf \notin {0, sdf_trunc}
          /\ Abs(Observation(slot, vox).sdf) < sdf_trunc
          /\ block_values[slot][vox].weight = MaxCalls

\* C2: one observation of an unobserved voxel: sdf < -sdf_trunc leaves the
\* voxel unchanged, sdf in [-sdf_trunc, sdf_trunc] stores sdf / sdf_trunc,
\* sdf > sdf_trunc stores +1; every stored tsdf lies in [-1, 1].
C2_Truncation ==
    /\ (kernel = "idle" /\ fresh /\ ncalls = 1) =>
          \A slot \in Slots, vox \in Voxels :
              Sighted(slot, vox) =>
                  LET sdf == Observation(slot, vox).sdf
                      vx  == block_values[slot][vox]
                  IN  /\ sdf < -sdf_trunc => vx = EmptyVoxel
                      /\ (sdf >= -sdf_trunc /\ sdf <= sdf_trunc) =>
                            vx.weight = 1 /\ vx.tsdf * sdf_trunc = sdf * TsdfOne
                      /\ sdf > sdf_trunc =>
                            vx.weight = 1 /\ vx.tsdf = TsdfOne
    /\ \A slot \in Slots, vox \in Voxels :
          /\ block_values[slot][vox].tsdf >= -TsdfOne
          /\ block_values[slot][vox].tsdf <= TsdfOne

C2_Witness ==
    /\ kernel = "idle" /\ fresh /\ ncalls = 1
    /\ \E slot \in Slots, vox \in Voxels :
          Sighted(slot, vox) /\ Observation(slot, vox).sdf < -sdf_trunc
    /\ \E slot \in Slots, vox \in Voxels :
          Sighted(slot, vox) /\ Observation(slot, vox).sdf = -sdf_trunc
    /\ \E slot \in Slots, vox \in Voxels :
          Sighted(slot, vox) /\ Observation(slot, vox).sdf > sdf_trunc
             /\ block_values[slot][vox].tsdf = TsdfOne

\* C3: a voxel that the frame does not observe (block not in indices,
\* projection outside the image, depth not in (0, depth_max], zc <= 0 or
\* sdf < -sdf_trunc) keeps its tsdf, weight and colour throughout the call.
C3_Frame ==
    \A slot \in Slots, vox \in Voxels :
        ~Observed(slot, vox) =>
            block_values[slot][vox] = pre_values[slot][vox]

C3_Witness ==
    /\ kernel = "idle" /\ ncalls = MaxCalls /\ ~fresh
    /\ \E slot \in Slots, vox \in Voxels :
          slot \notin Range(indices) /\ block_values[slot][vox].weight > 0
    /\ \E slot \in Slots, vox \in Voxels :
          /\ slot \in Range(indices)
          /\ Observation(slot, vox).inside
          /\ Observation(slot, vox).depth > depth_max
    /\ \E slot \in Slots, vox \in Voxels :
          slot \in Range(indices) /\ ~Observation(slot, vox).inside
    /\ \E slot \in Slots, vox \in Voxels :
          Observed(slot, vox)
             /\ block_values[slot][vox] # pre_values[slot][vox]

\* the effect of workload w run alone on the grid values
IntegrateEffect(values, w) ==
    LET d == IntegrateDecode(w)
    IN  IF d.update
        THEN [values EXCEPT ![d.block_idx][d.vox] =
                  IntegrateVoxel(values[d.block_idx][d.vox], d)]
        ELSE values

RECURSIVE IntegrateUpTo(_, _)
IntegrateUpTo(values, k) ==
    IF k = 0 THEN values
    ELSE IntegrateEffect(IntegrateUpTo(values, k - 1), k - 1)

\* C4: within a call no two workloads decode to the same (block slot, voxel),
\* and the call's result is that of running the workloads one after another,
\* whatever the interleaving.
C4_Disjoint ==
    /\ \A a \in targets, b \in targets :
          (a.block_idx = b.block_idx /\ a.vox = b.vox) => a.w = b.w
    /\ (kernel = "idle" /\ ncalls >= 1) =>
          /\ Cardinality(targets) = IntegrateN
          /\ block_values = IntegrateUpTo(pre_values, IntegrateN)

C4_Witness ==
    /\ kernel = "integrate"
    /\ Len(indices) > 1
    /\ \A t \in Workers : wk[t].pc = "store"
    /\ \E a \in Workers, b \in Workers :
          IntegrateDecode(wk[a].w).block_idx # IntegrateDecode(wk[b].w).block_idx

-----------------------------------------------------------------------------
(* Neighbour tables of the allocator and indexed neighbour access *)

\* the slot of the block with this key, -1 if no such block is allocated
SlotOfKey(key) ==
    IF \E s \in DOMAIN block_keys : block_keys[s] = key
    THEN CHOOSE s \in DOMAIN block_keys : block_keys[s] = key
    ELSE -1

\* nb = (dx + 1) + 3 (dy + 1) + 9 (dz + 1)
NbOffset(nb) == << (nb % 3) - 1, ((nb \div 3) % 3) - 1, (nb \div 9) - 1 >>

\* tables of the block at position k of indices (k from 0)
nb_indices(k, nb) ==
    LET key == block_keys[indices[k + 1]]
        d   == NbOffset(nb)
    IN  SlotOfKey(<<key[1] + d[1], key[2] + d[2], key[3] + d[3]>>)

nb_masks(k, nb) == nb_indices(k, nb) # -1

\* a voxel pointer is a (slot, voxel) pair; NoVoxel is nullptr
NoVoxel == [slot |-> -1, vox |-> <<0, 0, 0>>]

Deref(ptr) == block_values[ptr.slot][ptr.vox]

\* c: local coordinate, each component in -1 .. 2 * resolution - 1
DeviceGetVoxelAt(c, curr_block_idx) ==
    LET dxb == c[1] \div resolution
        dyb == c[2] \div resolution
        dzb == c[3] \div resolution
        nb_idx == (dxb + 1) + (dyb + 1) * 3 + (dzb + 1) * 9
    IN  IF ~nb_masks(curr_block_idx, nb_idx) THEN NoVoxel
        ELSE [slot |-> nb_indices(curr_block_idx, nb_idx),
              vox |-> <<c[1] % resolution, c[2] % resolution,
                        c[3] % resolution>>]

\* (x + (i == 0), y + (i == 1), z + (i == 2))
Shift(c, i) ==
    << c[1] + (IF i = 0 THEN 1 ELSE 0),
       c[2] + (IF i = 1 THEN 1 ELSE 0),
       c[3] + (IF i = 2 THEN 1 ELSE 0) >>

Unshift(c, i) ==
    << c[1] - (IF i = 0 THEN 1 ELSE 0),
       c[2] - (IF i = 1 THEN 1 ELSE 0),
       c[3] - (IF i = 2 THEN 1 ELSE 0) >>

\* central difference of the tsdf along axis i, times 2 voxel_size; 0 when a
\* neighbour is missing
NormalComponent(c, curr_block_idx, i) ==
    LET vp == DeviceGetVoxelAt(Shift(c, i), curr_block_idx)
        vn == DeviceGetVoxelAt(Unshift(c, i), curr_block_idx)
    IN  IF vp # NoVoxel /\ vn # NoVoxel
        THEN Deref(vp).tsdf - Deref(vn).tsdf ELSE 0

DeviceGetNormalAt(c, curr_block_idx) ==
    << NormalComponent(c, curr_block_idx, 0),
       NormalComponent(c, curr_block_idx, 1),
       NormalComponent(c, curr_block_idx, 2) >>

Sgn(a) == IF a < 0 THEN -1 ELSE 1

-----------------------------------------------------------------------------
(* Inputs of the extraction models *)

NumGrids == 4

\* slots are addresses of the block buffer and need not be dense
ExtractKeys == (1 :> <<0, 0, 0>>) @@ (3 :> <<1, 0, 0>>) @@ (4 :> <<0, 0, -1>>)

\* a grid after integration of a planar surface n . p = d / 20 (in voxels)
\* seen inside the box lo..hi: the voxels of the box are observed, the
\* others are not
GridTable ==
    << [n |-> <<1, 0, 0>>, d |-> 26, lo |-> <<0, 0, 0>>,  hi |-> <<3, 1, 1>>],
       [n |-> <<1, 1, 1>>, d |-> 10, lo |-> <<0, 0, 0>>,  hi |-> <<1, 1, 1>>],
       [n |-> <<1, 0, 1>>, d |-> 10, lo |-> <<0, 0, -1>>, hi |-> <<3, 0, 0>>],
       [n |-> <<1, 1, 0>>, d |-> 20, lo |-> <<0, 0, 0>>,  hi |-> <<3, 1, 1>>],
       [n |-> <<0, 0, 1>>, d |-> 6,  lo |-> <<1, 0, -2>>, hi |-> <<3, 1, 1>>],
       [n |-> <<-1, -1, -2>>, d |-> -60,
        lo |-> <<0, 0, 0>>, hi |-> <<1, 1, 1>>] >>

GridParams(g) == GridTable[((g - 1) % Len(GridTable)) + 1]

Clamp(t) ==
    IF t > TsdfOne THEN TsdfOne ELSE IF t < -TsdfOne THEN -TsdfOne ELSE t

GridVoxel(g, p) ==
    LET q == GridParams(g)
    IN  IF \A a \in 1..3 : q.lo[a] <= p[a] /\ p[a] <= q.hi[a]
        THEN [tsdf |-> Clamp(20 * (q.n[1] * p[1] + q.n[2] * p[2]
                                    + q.n[3] * p[3]) - q.d),
              weight |-> 2 - (p[2] % 2),
              r |-> (40 * p[1] + g) % 256,
              g |-> (90 * p[2] + 3 * g) % 256,
              b |-> (70 * (p[3] + resolution) + 5 * g) % 256]
        ELSE EmptyVoxel

Grid(g) ==
    [s \in DOMAIN ExtractKeys |->
        [vox \in Voxels |-> GridVoxel(g, WorldCoord(ExtractKeys[s], vox))]]

-----------------------------------------------------------------------------
(* ExtractSurfacePointsCPU *)

PointsN == Len(indices) * resolution3

Unwritten == << >>

NewRows(len) == [r \in 1..len |-> Unwritten]

extract_normal == opts.normals
extract_color == opts.has_color /\ opts.colors

\* the edge from voxel vox of the block at position k along axis i carries a
\* point: the neighbour exists, is trusted, and the tsdf changes sign
PointsCrossingBug(k, vox, i) ==
    LET ptr == DeviceGetVoxelAt(Shift(vox, i), k)
    IN  /\ ptr # NoVoxel
        /\ Deref(ptr).weight > weight_threshold
        /\ Deref(ptr).tsdf * block_values[indices[k + 1]][vox].tsdf <= 0
PointsCrossingBug2(k, vox, i) ==
    LET ptr == DeviceGetVoxelAt(Shift(vox, i), k)
    IN  /\ ptr # NoVoxel
        /\ Deref(ptr).tsdf * block_values[indices[k + 1]][vox].tsdf < 0
PointsCrossing(k, vox, i) ==
    LET ptr == DeviceGetVoxelAt(Shift(vox, i), k)
    IN  /\ ptr # NoVoxel
        /\ Deref(ptr).weight > weight_threshold
        /\ Deref(ptr).tsdf * block_values[indices[k + 1]][vox].tsdf < 0

\* the loop over the axes runs on from axis i to the next atomic add;
\* 3 when the loop ends without one
NextCrossing(k, vox, i) ==
    IF i <= 0 /\ PointsCrossing(k, vox, 0) THEN 0
    ELSE IF i <= 1 /\ PointsCrossing(k, vox, 1) THEN 1
    ELSE IF i <= 2 /\ PointsCrossing(k, vox, 2) THEN 2
    ELSE 3

\* a workload up to its first atomic add: 3 when it returns without one
FirstCrossing(workload_idx) ==
    LET k   == WorkloadBlockIdx(workload_idx)
        vox == WorkloadToCoord(WorkloadVoxelIdx(workload_idx))
    IN  IF block_values[indices[k + 1]][vox].weight <= weight_threshold
        THEN 3
        ELSE NextCrossing(k, vox, 0)

\* lines 294-312, 320-328: buffers of length 0 are allocated with vs rows
PointsAllocateBug(vs) ==
    /\ max_count' = vs
    /\ points' = IF Len(points) = 0 THEN NewRows(vs + 1) ELSE points
    /\ normals' = IF extract_normal /\ Len(normals) = 0
                  THEN NewRows(vs) ELSE normals
    /\ colors' = IF extract_color /\ Len(colors) = 0
                 THEN NewRows(vs) ELSE colors
PointsAllocate(vs) ==
    /\ max_count' = vs
    /\ points' = IF Len(points) = 0 THEN NewRows(vs) ELSE points
    /\ normals' = IF extract_normal /\ Len(normals) = 0
                  THEN NewRows(vs) ELSE normals
    /\ colors' = IF extract_color /\ Len(colors) = 0
                 THEN NewRows(vs) ELSE colors

\* entry: with valid_size < 0 the counting pass is launched, otherwise the
\* buffers are set up and the extraction pass is launched
PointsCall ==
    /\ kernel = "idle"
    /\ next' = 0
    /\ IF valid_size < 0
       THEN /\ kernel' = "pointsA"
            /\ UNCHANGED <<max_count, points, normals, colors>>
       ELSE /\ kernel' = "pointsB"
            /\ PointsAllocate(valid_size)
    /\ UNCHANGED <<wk, block_keys, block_values, indices, weight_threshold,
                   integrateVars, meshVars, opts, valid_size, count, emit, overrun,
                   call>>
    /\ UNCHANGED <<rangeVars, rayCastVars>>

\* pass A: a worker takes the next workload and runs it to its first add
PointsCountTake(t) ==
    /\ kernel = "pointsA"
    /\ TakesNext(t)
    /\ next < PointsN
    /\ wk' = IF FirstCrossing(next) < 3
             THEN [wk EXCEPT ![t] = [pc |-> "add", w |-> next,
                                     loc |-> <<FirstCrossing(next)>>]]
             ELSE wk
    /\ next' = next + 1
    /\ UNCHANGED <<kernel, block_keys, block_values, indices,
                   weight_threshold, integrateVars, meshVars, pointsVars>>
    /\ UNCHANGED <<rangeVars, rayCastVars>>

\* pass A: OPEN3D_ATOMIC_ADD(count_ptr, 1), then on to the next one
PointsCountAdd(t) ==
    /\ kernel = "pointsA"
    /\ wk[t].pc = "add"
    /\ count' = count + 1
    /\ LET k   == WorkloadBlockIdx(wk[t].w)
           vox == WorkloadToCoord(WorkloadVoxelIdx(wk[t].w))
           i   == NextCrossing(k, vox, wk[t].loc[1] + 1)
       IN  wk' = [wk EXCEPT ![t] =
                    IF i < 3 THEN [@ EXCEPT !.loc = <<i>>] ELSE IdleWk]
    /\ UNCHANGED <<kernel, next, block_keys, block_values, indices,
                   weight_threshold, integrateVars, meshVars, opts, valid_size,
                   max_count, points, normals, colors, emit, overrun,
                   call>>
    /\ UNCHANGED <<rangeVars, rayCastVars>>

\* pass A is complete: valid_size is the count, the counter is reset, the
\* buffers are set up and the extraction pass is launched
PointsCountEnd ==
    /\ kernel = "pointsA"
    /\ next = PointsN
    /\ AllIdle
    /\ valid_size' = count
    /\ count' = 0
    /\ PointsAllocate(count)
    /\ kernel' = "pointsB"
    /\ next' = 0
    /\ UNCHANGED <<wk, block_keys, block_values, indices, weight_threshold,
                   integrateVars, meshVars, opts, emit, overrun, call>>
    /\ UNCHANGED <<rangeVars, rayCastVars>>

\* pass B: a worker takes the next workload and runs it to its first add
PointsTake(t) ==
    /\ kernel = "pointsB"
    /\ TakesNext(t)
    /\ next < PointsN
    /\ wk' = IF FirstCrossing(next) < 3
             THEN [wk EXCEPT ![t] = [pc |-> "emit", w |-> next,
                                     loc |-> <<FirstCrossing(next)>>]]
             ELSE wk
    /\ next' = next + 1
    /\ UNCHANGED <<kernel, block_keys, block_values, indices,
                   weight_threshold, integrateVars, meshVars, pointsVars>>
    /\ UNCHANGED <<rangeVars, rayCastVars>>

\* the rows written for the crossing on axis i of voxel vox at position k;
\* fractions are kept as numerators over den, with den >= 0
PointRow(k, vox, i) ==
    LET o     == block_values[indices[k + 1]][vox]
        ptr   == DeviceGetVoxelAt(Shift(vox, i), k)
        n     == Deref(ptr)
        num   == 0 - o.tsdf
        den   == n.tsdf - o.tsdf
        s     == Sgn(den)
        g     == WorldCoord(block_keys[indices[k + 1]], vox)
        no    == DeviceGetNormalAt(vox, k)
        ni    == DeviceGetNormalAt(Shift(vox, i), k)
    IN  [point |->
            [x |-> s * voxel_size * (g[1] * den + (IF i = 0 THEN num ELSE 0)),
             y |-> s * voxel_size * (g[2] * den + (IF i = 1 THEN num ELSE 0)),
             z |-> s * voxel_size * (g[3] * den + (IF i = 2 THEN num ELSE 0)),
             den |-> s * den],
         color |->
            [r |-> s * ((den - num) * o.r + num * n.r),
             g |-> s * ((den - num) * o.g + num * n.g),
             b |-> s * ((den - num) * o.b + num * n.b),
             den |-> s * den * 255],
         \* direction only: the division by the norm is not modelled
         normal |->
            [x |-> s * ((den - num) * no[1] + num * ni[1]),
             y |-> s * ((den - num) * no[2] + num * ni[2]),
             z |-> s * ((den - num) * no[3] + num * ni[3])]]

\* buffer[idx] = row; a write past the end of the buffer is an overrun
WriteRow(buffer, idx, row) ==
    IF idx < Len(buffer) THEN [buffer EXCEPT ![idx + 1] = row] ELSE buffer

Overrun(name, buffer, idx) ==
    IF idx < Len(buffer) THEN {} ELSE {<<name, idx>>}

\* idx >= valid_size: the point is dropped and the workload returns
DroppedBug(idx) == idx > max_count
Dropped(idx) == idx >= max_count

\* pass B: idx = OPEN3D_ATOMIC_ADD(count_ptr, 1); the rows idx are written
\* unless idx >= valid_size, where the workload returns
PointsEmit(t) ==
    /\ kernel = "pointsB"
    /\ wk[t].pc = "emit"
    /\ LET k   == WorkloadBlockIdx(wk[t].w)
           vox == WorkloadToCoord(WorkloadVoxelIdx(wk[t].w))
           i   == wk[t].loc[1]
           idx == count
           row == PointRow(k, vox, i)
           nxt == NextCrossing(k, vox, i + 1)
       IN  /\ count' = count + 1
           /\ emit' = Append(emit, [k |-> k, vox |-> vox, axis |-> i])
           /\ IF Dropped(idx)
              THEN /\ wk' = [wk EXCEPT ![t] = IdleWk]
                   /\ UNCHANGED <<points, colors, normals, overrun>>
              ELSE /\ points' = WriteRow(points, idx, row.point)
                   /\ colors' = IF extract_color
                                THEN WriteRow(colors, idx, row.color)
                                ELSE colors
                   /\ normals' = IF extract_normal
                                 THEN WriteRow(normals, idx, row.normal)
                                 ELSE normals
                   /\ overrun' = overrun
                        \cup Overrun("points", points, idx)
                        \cup (IF extract_color
                              THEN Overrun("colors", colors, idx) ELSE {})
                        \cup (IF extract_normal
                              THEN Overrun("normals", normals, idx) ELSE {})
                   /\ wk' = [wk EXCEPT ![t] =
                               IF nxt < 3 THEN [@ EXCEPT !.loc = <<nxt>>]
                               ELSE IdleWk]
    /\ UNCHANGED <<kernel, next, block_keys, block_values, indices,
                   weight_threshold, integrateVars, meshVars, opts, valid_size,
                   max_count, call>>
    /\ UNCHANGED <<rangeVars, rayCastVars>>

\* pass B is complete: valid_size = total_count
PointsEnd ==
    /\ kernel = "pointsB"
    /\ next = PointsN
    /\ AllIdle
    /\ valid_size' = count
    /\ kernel' = "done"
    /\ UNCHANGED <<next, wk, block_keys, block_values, indices,
                   weight_threshold, integrateVars, meshVars, opts, max_count, count,
                   points, normals, colors, emit, overrun, call>>
    /\ UNCHANGED <<rangeVars, rayCastVars>>

(* Inputs of the ExtractSurfacePoints model *)

PointsIndices == { <<3, 1>>, <<1, 4>> }

AllOpts == [has_color |-> TRUE, colors |-> TRUE, normals |-> TRUE]
MonoOpts == [has_color |-> FALSE, colors |-> TRUE, normals |-> FALSE]
NormalOpts == [has_color |-> TRUE, colors |-> FALSE, normals |-> TRUE]

\* valid_size, the length of the buffers passed in, weight_threshold, options
PointsCalls ==
    { [valid_size |-> -1, len |-> 0, weight_threshold |-> 0, opts |-> AllOpts],
      [valid_size |-> -1, len |-> 0, weight_threshold |-> 1, opts |-> MonoOpts],
      [valid_size |-> -1, len |-> resolution3, weight_threshold |-> 0,
       opts |-> NormalOpts],
      [valid_size |-> 0, len |-> 0, weight_threshold |-> 0,
       opts |-> NormalOpts],
      [valid_size |-> 2,  len |-> 0, weight_threshold |-> 0, opts |-> AllOpts],
      [valid_size |-> 3,  len |-> 3, weight_threshold |-> 1, opts |-> AllOpts],
      [valid_size |-> 3 * resolution3, len |-> 0, weight_threshold |-> 0,
       opts |-> MonoOpts] }

IntegrateUnused ==
    /\ frame = [depth |-> Depth1, color |-> NoColor, K |-> Intrinsics,
                ext |-> Pose1]
    /\ pre_values = block_values
    /\ fresh = FALSE
    /\ ncalls = 0
    /\ targets = {}

InitPoints ==
    /\ RangeUnused
    /\ RayCastUnused
    /\ kernel = "idle"
    /\ next = 0
    /\ wk = [t \in Workers |-> IdleWk]
    /\ block_keys = ExtractKeys
    /\ \E g \in 1..NumGrids : block_values = Grid(g)
    /\ indices \in PointsIndices
    /\ \E c \in PointsCalls :
          /\ valid_size = c.valid_size
          /\ call = [valid_size |-> c.valid_size, len |-> c.len]
          /\ weight_threshold = c.weight_threshold
          /\ opts = c.opts
          /\ points = NewRows(c.len)
          /\ normals = NewRows(c.len)
          /\ colors = NewRows(c.len)
    /\ max_count = 0
    /\ count = 0
    /\ emit = << >>
    /\ overrun = {}
    /\ IntegrateUnused
    /\ MeshUnused

NextPoints ==
    \/ PointsCall
    \/ \E t \in Workers : PointsCountTake(t)
    \/ \E t \in Workers : PointsCountAdd(t)
    \/ PointsCountEnd
    \/ \E t \in Workers : PointsTake(t)
    \/ \E t \in Workers : PointsEmit(t)
    \/ PointsEnd

SpecPoints == InitPoints /\ [][NextPoints]_vars

-----------------------------------------------------------------------------
(* Properties of ExtractSurfacePoints *)

\* the voxel at a world coordinate, NoVoxel where no block is allocated
VoxelAtWorld(p) ==
    LET key == <<p[1] \div resolution, p[2] \div resolution,
                 p[3] \div resolution>>
    IN  IF SlotOfKey(key) = -1 THEN NoVoxel
        ELSE [slot |-> SlotOfKey(key),
              vox |-> <<p[1] % resolution, p[2] % resolution,
                        p[3] % resolution>>]

Trusted(ptr) == ptr # NoVoxel /\ Deref(ptr).weight > weight_threshold

\* the axis-aligned edges (origin world coordinate, axis) with the origin in
\* an active block, both ends trusted and a sign change of the tsdf
CrossingEdges ==
    { e \in { <<WorldCoord(block_keys[s], vox), i>> :
                  s \in Range(indices), vox \in Voxels, i \in 0..2 } :
        /\ Trusted(VoxelAtWorld(e[1]))
        /\ Trusted(VoxelAtWorld(Shift(e[1], e[2])))
        /\ Deref(VoxelAtWorld(e[1])).tsdf
              * Deref(VoxelAtWorld(Shift(e[1], e[2]))).tsdf < 0 }

\* the edge of the idx-th atomic add of pass B (idx from 0)
EmitEdge(idx) ==
    << WorldCoord(block_keys[indices[emit[idx + 1].k + 1]], emit[idx + 1].vox),
       emit[idx + 1].axis >>

Coord(row, a) == IF a = 0 THEN row.x ELSE IF a = 1 THEN row.y ELSE row.z

\* the row is a point of the closed edge e, at the fraction num/den of it
OnEdge(row, e) ==
    /\ row # Unwritten
    /\ row.den > 0
    /\ \A a \in 0..2 :
          IF a = e[2]
          THEN /\ Coord(row, a) >= voxel_size * e[1][a + 1] * row.den
               /\ Coord(row, a) <= voxel_size * (e[1][a + 1] + 1) * row.den
          ELSE Coord(row, a) = voxel_size * e[1][a + 1] * row.den

\* strictly between the two voxel centres
InsideEdge(row, e) ==
    /\ OnEdge(row, e)
    /\ Coord(row, e[2]) > voxel_size * e[1][e[2] + 1] * row.den
    /\ Coord(row, e[2]) < voxel_size * (e[1][e[2] + 1] + 1) * row.den

NoOverflow ==
    /\ Len(emit) <= max_count
    /\ overrun = {}

\* C5: without overflow exactly one point is emitted for every crossing edge
\* and none for any other edge; an edge on a block boundary is emitted once.
C5_OnePointPerEdge ==
    (kernel = "done" /\ NoOverflow) =>
        /\ { EmitEdge(idx) : idx \in 0..(Len(emit) - 1) } = CrossingEdges
        /\ Len(emit) = Cardinality(CrossingEdges)
        /\ \A idx \in 0..(Len(emit) - 1) :
              OnEdge(points[idx + 1], EmitEdge(idx))

C5_Witness ==
    /\ kernel = "done" /\ NoOverflow
    /\ Cardinality(CrossingEdges) >= 2
    \* an edge across a block boundary, into a block that is not active
    /\ \E e \in CrossingEdges :
          /\ VoxelAtWorld(e[1]).slot # VoxelAtWorld(Shift(e[1], e[2])).slot
          /\ VoxelAtWorld(Shift(e[1], e[2])).slot \notin Range(indices)
    \* a sign change that is no crossing: an end is not trusted
    /\ \E s \in Range(indices), vox \in Voxels, i \in 0..2 :
          LET p == WorldCoord(block_keys[s], vox)
          IN  /\ VoxelAtWorld(Shift(p, i)) # NoVoxel
              /\ Deref(VoxelAtWorld(p)).tsdf
                    * Deref(VoxelAtWorld(Shift(p, i))).tsdf < 0
              /\ <<p, i>> \notin CrossingEdges

\* the rows of a buffer that pass B has written so far
Written(buffer) == { idx \in 0..(Len(buffer) - 1) : buffer[idx + 1] # Unwritten }

\* C6: every emitted point lies strictly between the two voxel centres of its
\* edge (the ratio has a non-zero denominator and 0 < ratio < 1), and both
\* end voxels have weight above weight_threshold.
C6_PointInsideEdge ==
    \A idx \in Written(points) :
        /\ idx < Len(emit)
        /\ InsideEdge(points[idx + 1], EmitEdge(idx))
        /\ Trusted(VoxelAtWorld(EmitEdge(idx)[1]))
        /\ Trusted(VoxelAtWorld(Shift(EmitEdge(idx)[1], EmitEdge(idx)[2])))

C6_Witness ==
    /\ kernel = "pointsB"
    /\ Cardinality(Written(points)) >= 2
    /\ \E idx \in Written(points) :
          2 * (points[idx + 1].x + points[idx + 1].y + points[idx + 1].z)
            # voxel_size * points[idx + 1].den
               * (2 * (EmitEdge(idx)[1][1] + EmitEdge(idx)[1][2]
                        + EmitEdge(idx)[1][3]) + 1)

\* the rows of an output that pass B has written, inside the buffer or past
\* its end
RowsWritten(name, buffer) ==
    Written(buffer) \cup { o[2] : o \in { p \in overrun : p[1] = name } }

\* what a two-pass call does apart from the allocation: the counter is reset
\* between the passes (pass B counts from 0), the count of pass A is reported
\* in valid_size, pass B drops no point and emits as many points as pass A
\* counted, and the valid_size returned is that count
TwoPassCounts ==
    /\ kernel = "pointsB" =>
          /\ count = Len(emit)
          /\ valid_size = max_count
    /\ kernel \in {"pointsB", "done"} =>
          /\ Len(emit) <= max_count
          /\ \A idx \in 0..(Len(emit) - 1) :
                idx \in RowsWritten("points", points)
    /\ kernel = "done" =>
          /\ Len(emit) = max_count
          /\ valid_size = max_count

\* every output of the call has exactly max_count rows
ExactRows ==
    /\ Len(points) = max_count
    /\ extract_normal => Len(normals) = max_count
    /\ extract_color => Len(colors) = max_count

\* C9 as stated: in a call with valid_size < 0 the count of pass A equals the
\* number of points pass B emits, the counter is reset between the passes,
\* the output buffers have exactly that many rows, no point is dropped and
\* the returned valid_size is that count.
C9_AsStated ==
    call.valid_size < 0 =>
        /\ TwoPassCounts
        /\ kernel \in {"pointsB", "done"} => ExactRows

\* C9: in a call with valid_size < 0 the count of pass A equals the number of
\* points pass B emits, the counter is reset between the passes, no point is
\* dropped and the returned valid_size is that count; output buffers passed
\* with length 0 are allocated with exactly that many rows (buffers passed
\* with rows are written in place and keep their length).
C9_TwoPass ==
    call.valid_size < 0 =>
        /\ TwoPassCounts
        /\ (kernel \in {"pointsB", "done"} /\ call.len = 0) => ExactRows

C9_Witness ==
    /\ kernel = "done"
    /\ call.valid_size < 0 /\ call.len = 0
    /\ extract_normal /\ extract_color
    /\ Len(emit) >= 2
    /\ Len(points) = Len(emit)

\* C10: when there are more crossing edges than the valid_size >= 0 supplied
\* by the caller, no point, colour or normal is written at a row >= that
\* valid_size, and at the end exactly the rows 0 .. valid_size - 1 of every
\* extracted output are written.
C10_OverflowDropped ==
    (call.valid_size >= 0 /\ Cardinality(CrossingEdges) > call.valid_size) =>
        /\ \A idx \in RowsWritten("points", points)
                        \cup RowsWritten("normals", normals)
                        \cup RowsWritten("colors", colors) :
              idx < call.valid_size
        /\ kernel = "done" =>
              /\ RowsWritten("points", points) = 0..(call.valid_size - 1)
              /\ extract_normal =>
                    RowsWritten("normals", normals) = 0..(call.valid_size - 1)
              /\ extract_color =>
                    RowsWritten("colors", colors) = 0..(call.valid_size - 1)

C10_Witness ==
    /\ kernel = "done"
    /\ call.valid_size >= 1
    /\ Cardinality(CrossingEdges) > call.valid_size
    /\ Len(emit) > call.valid_size
    /\ extract_normal /\ extract_color
    /\ Written(colors) = 0..(call.valid_size - 1)

-----------------------------------------------------------------------------
(* Marching Cubes tables *)

\* corner i of the unit cube
vtx_shifts ==
    << <<0, 0, 0>>, <<1, 0, 0>>, <<1, 1, 0>>, <<0, 1, 0>>,
       <<0, 0, 1>>, <<1, 0, 1>>, <<1, 1, 1>>, <<0, 1, 1>> >>

\* edge e: offset (dxv, dyv, dzv) of the voxel that owns the edge, and the
\* axis of the edge (its channel in that voxel's mesh structure)
edge_shifts ==
    << <<0, 0, 0, 0>>, <<1, 0, 0, 1>>, <<0, 1, 0, 0>>, <<0, 0, 0, 1>>,
       <<0, 0, 1, 0>>, <<1, 0, 1, 1>>, <<0, 1, 1, 0>>, <<0, 0, 1, 1>>,
       <<0, 0, 0, 2>>, <<1, 0, 0, 2>>, <<1, 1, 0, 2>>, <<0, 1, 0, 2>> >>

\* bit i of a mask
Bit(mask, i) == (mask \div (2 ^ i)) % 2

\* the mask with the bits of S
RECURSIVE BitMask(_)
BitMask(S) ==
    IF S = {} THEN 0
    ELSE LET i == CHOOSE j \in S : TRUE
         IN  (2 ^ i) + BitMask(S \ {i})

\* the corner at an offset of the unit cube
CornerAt(d) == CHOOSE i \in 0..7 : vtx_shifts[i + 1] = d

\* the two corners of edge e
EdgeFrom(e) ==
    CornerAt(<<edge_shifts[e + 1][1], edge_shifts[e + 1][2],
               edge_shifts[e + 1][3]>>)
EdgeTo(e) ==
    CornerAt(Shift(<<edge_shifts[e + 1][1], edge_shifts[e + 1][2],
                     edge_shifts[e + 1][3]>>, edge_shifts[e + 1][4]))

\* bit e is set iff the two corners of edge e are classified differently
edge_table(table_idx) ==
    BitMask({ e \in 0..11 :
                Bit(table_idx, EdgeFrom(e)) # Bit(table_idx, EdgeTo(e)) })

\* a row of 16 entries, -1 after the last triangle
TriRow(edges) == edges \o [j \in 1..(16 - Len(edges)) |-> -1]

\* the rows of the cube types with no, one or all corners negative or the
\* four corners of the bottom face negative
tri_table(table_idx) ==
    CASE table_idx = 0   -> TriRow(<< >>)
      [] table_idx = 1   -> TriRow(<<0, 8, 3>>)
      [] table_idx = 2   -> TriRow(<<0, 1, 9>>)
      [] table_idx = 4   -> TriRow(<<1, 2, 10>>)
      [] table_idx = 8   -> TriRow(<<3, 11, 2>>)
      [] table_idx = 15  -> TriRow(<<9, 8, 10, 10, 8, 11>>)
      [] table_idx = 16  -> TriRow(<<4, 7, 8>>)
      [] table_idx = 32  -> TriRow(<<9, 5, 4>>)
      [] table_idx = 64  -> TriRow(<<10, 6, 5>>)
      [] table_idx = 128 -> TriRow(<<7, 6, 11>>)
      [] table_idx = 255 -> TriRow(<< >>)

\* the number of triangles of a cube type
tri_count(table_idx) ==
    Cardinality({ j \in 1..16 : tri_table(table_idx)[j] # -1 }) \div 3

-----------------------------------------------------------------------------
(* ExtractSurfaceMeshCPU *)

MeshN == Len(indices) * resolution3

\* inverse of indices: block slot -> position in indices; -1 stands for an
\* entry that indices does not define
inv_indices(block_idx) ==
    IF \E k \in 0..(Len(indices) - 1) : indices[k + 1] = block_idx
    THEN CHOOSE k \in 0..(Len(indices) - 1) : indices[k + 1] = block_idx
    ELSE -1

Zeros ==
    [k \in 0..(Len(indices) - 1) |-> [vox \in Voxels |-> <<0, 0, 0, 0>>]]

Corner(vox, i) ==
    << vox[1] + vtx_shifts[i + 1][1], vox[2] + vtx_shifts[i + 1][2],
       vox[3] + vtx_shifts[i + 1][3] >>

\* pass 0 gives up a cube with a corner that is missing or not trusted
MeshCornerRejectedBug(ptr) ==
    ptr = NoVoxel \/ Deref(ptr).weight < weight_threshold
MeshCornerRejected(ptr) ==
    ptr = NoVoxel \/ Deref(ptr).weight <= weight_threshold

\* the cube type of voxel vox of the block at position k: bit i is set iff
\* corner i has tsdf < 0; -1 when the workload returns before it has one
TableIdx(k, vox) ==
    IF \E i \in 0..7 :
          MeshCornerRejected(DeviceGetVoxelAt(Corner(vox, i), k))
    THEN -1
    ELSE BitMask({ i \in 0..7 :
                     Deref(DeviceGetVoxelAt(Corner(vox, i), k)).tsdf < 0 })

\* the first edge from i on that is in the mask, 12 if none (NextEdgeBug: the
\* loop over the edges stops at i < 11)
NextEdgeBug(mask, i) ==
    IF \E e \in i..10 : Bit(mask, e) = 1
    THEN CHOOSE e \in i..10 :
            Bit(mask, e) = 1 /\ \A f \in i..(e - 1) : Bit(mask, f) = 0
    ELSE 12
NextEdge(mask, i) ==
    IF \E e \in i..11 : Bit(mask, e) = 1
    THEN CHOOSE e \in i..11 :
            Bit(mask, e) = 1 /\ \A f \in i..(e - 1) : Bit(mask, f) = 0
    ELSE 12

\* the mesh structure entry that holds the vertex of edge i of the cube at
\* voxel vox of the block at position k: position of the owner's block,
\* voxel in that block, channel
MeshOwnerBug(k, vox, i) ==
    LET xv_i == vox[1] + edge_shifts[i + 1][1]
        yv_i == vox[2] + edge_shifts[i + 1][2]
        zv_i == vox[3] + edge_shifts[i + 1][3]
        dxb  == xv_i \div resolution
        dyb  == yv_i \div resolution
        dzb  == zv_i \div resolution
    IN  [pos    |-> k,
         vox    |-> << xv_i - dxb * resolution, yv_i - dyb * resolution,
                       zv_i - dzb * resolution >>,
         edge_i |-> edge_shifts[i + 1][4]]
MeshOwner(k, vox, i) ==
    LET xv_i == vox[1] + edge_shifts[i + 1][1]
        yv_i == vox[2] + edge_shifts[i + 1][2]
        zv_i == vox[3] + edge_shifts[i + 1][3]
        dxb  == xv_i \div resolution
        dyb  == yv_i \div resolution
        dzb  == zv_i \div resolution
        nb_idx == (dxb + 1) + (dyb + 1) * 3 + (dzb + 1) * 9
        block_idx_i == nb_indices(k, nb_idx)
    IN  [pos    |-> inv_indices(block_idx_i),
         vox    |-> << xv_i - dxb * resolution, yv_i - dyb * resolution,
                       zv_i - dzb * resolution >>,
         edge_i |-> edge_shifts[i + 1][4]]

pointsOnly == <<valid_size, max_count, count, points, call>>

\* entry: the mesh structure is allocated with zeros; pass 0 is launched
MeshAllocated ==
    /\ mesh_structure' = Zeros
    /\ kernel' = "mesh0"
    /\ UNCHANGED fault

\* Tensor::Zeros threw std::runtime_error, the handler calls utility::LogError
\* which raises the error to the caller: no statement after the handler runs
MeshAllocationFailedBug ==
    /\ mesh_structure' = Zeros
    /\ kernel' = "mesh0"
    /\ fault' = "mesh_structure"

MeshAllocationFailed ==
    /\ mesh_structure' = mesh_structure
    /\ kernel' = "raised"
    /\ fault' = "mesh_structure"

\* the host code before pass 0: the allocation of mesh_structure succeeds or
\* fails, as the memory of the device allows
MeshCall ==
    /\ kernel = "idle"
    /\ \/ MeshAllocated
       \/ MeshAllocationFailed
    /\ next' = 0
    /\ UNCHANGED <<wk, block_keys, block_values, indices, weight_threshold,
                   integrateVars, pointsOnly, opts, normals, colors, emit,
                   overrun, vtx_count, total_vtx_count, vertices,
                   triangle_count, triangles, tri_emit>>
    /\ UNCHANGED <<rangeVars, rayCastVars>>

\* pass 0: a worker takes the next workload, classifies its cube and stores
\* the cube type in channel 3
MeshAnalyzeTake(t) ==
    /\ kernel = "mesh0"
    /\ TakesNext(t)
    /\ next < MeshN
    /\ LET k   == WorkloadBlockIdx(next)
           vox == WorkloadToCoord(WorkloadVoxelIdx(next))
           table_idx == TableIdx(k, vox)
       IN  /\ mesh_structure' =
                 IF table_idx = -1 THEN mesh_structure
                 ELSE [mesh_structure EXCEPT ![k][vox][4] = table_idx]
           /\ wk' = IF table_idx \in {-1, 0, 255} THEN wk
                    ELSE [wk EXCEPT ![t] =
                            [pc |-> "mark", w |-> next,
                             loc |-> <<NextEdge(edge_table(table_idx), 0)>>]]
    /\ next' = next + 1
    /\ UNCHANGED <<kernel, block_keys, block_values, indices,
                   weight_threshold, integrateVars, pointsVars, vtx_count,
                   total_vtx_count, vertices, triangle_count, triangles,
                   tri_emit, fault>>
    /\ UNCHANGED <<rangeVars, rayCastVars>>

\* pass 0: the entry of the next edge that carries a vertex is set to -1
MeshMark(t) ==
    /\ kernel = "mesh0"
    /\ wk[t].pc = "mark"
    /\ LET k   == WorkloadBlockIdx(wk[t].w)
           vox == WorkloadToCoord(WorkloadVoxelIdx(wk[t].w))
           i   == wk[t].loc[1]
           own == MeshOwner(k, vox, i)
           nxt == NextEdge(edge_table(mesh_structure[k][vox][4]), i + 1)
       IN  IF own.pos = -1
           THEN /\ fault' = "mesh_ptr_i"
                /\ kernel' = "fault"
                /\ UNCHANGED <<mesh_structure, wk>>
           ELSE /\ mesh_structure' =
                      [mesh_structure EXCEPT
                          ![own.pos][own.vox][own.edge_i + 1] = -1]
                /\ wk' = [wk EXCEPT ![t] =
                            IF nxt < 12 THEN [@ EXCEPT !.loc = <<nxt>>]
                            ELSE IdleWk]
                /\ UNCHANGED <<fault, kernel>>
    /\ UNCHANGED <<next, block_keys, block_values, indices, weight_threshold,
                   integrateVars, pointsVars, vtx_count, total_vtx_count,
                   vertices, triangle_count, triangles, tri_emit>>
    /\ UNCHANGED <<rangeVars, rayCastVars>>

\* pass 0 is complete: pass 1 is launched with its counter at 0
MeshAnalyzeEnd ==
    /\ kernel = "mesh0"
    /\ next = MeshN
    /\ AllIdle
    /\ vtx_count' = 0
    /\ kernel' = "mesh1"
    /\ next' = 0
    /\ UNCHANGED <<wk, block_keys, block_values, indices, weight_threshold,
                   integrateVars, pointsVars, mesh_structure,
                   total_vtx_count, vertices, triangle_count, triangles,
                   tri_emit, fault>>
    /\ UNCHANGED <<rangeVars, rayCastVars>>

\* the first channel from e on, of the three edges of the voxel, that is -1;
\* 3 if none (NextVertexEdgeBug: the loop over the channels stops at e < 2)
NextVertexEdgeBug(k, vox, e) ==
    IF e <= 0 /\ mesh_structure[k][vox][1] = -1 THEN 0
    ELSE IF e <= 1 /\ mesh_structure[k][vox][2] = -1 THEN 1
    ELSE 3
NextVertexEdge(k, vox, e) ==
    IF e <= 0 /\ mesh_structure[k][vox][1] = -1 THEN 0
    ELSE IF e <= 1 /\ mesh_structure[k][vox][2] = -1 THEN 1
    ELSE IF e <= 2 /\ mesh_structure[k][vox][3] = -1 THEN 2
    ELSE 3

\* pass 1: a worker takes the next workload and runs it to its first add
MeshCountTake(t) ==
    /\ kernel = "mesh1"
    /\ TakesNext(t)
    /\ next < MeshN
    /\ LET k   == WorkloadBlockIdx(next)
           vox == WorkloadToCoord(WorkloadVoxelIdx(next))
           e   == NextVertexEdge(k, vox, 0)
       IN  wk' = IF e < 3
                 THEN [wk EXCEPT ![t] =
                         [pc |-> "vadd", w |-> next, loc |-> <<e>>]]
                 ELSE wk
    /\ next' = next + 1
    /\ UNCHANGED <<kernel, block_keys, block_values, indices,
                   weight_threshold, integrateVars, pointsVars, meshVars>>
    /\ UNCHANGED <<rangeVars, rayCastVars>>

\* pass 1: OPEN3D_ATOMIC_ADD(vtx_count_ptr, 1), then on to the next one
MeshCountAdd(t) ==
    /\ kernel = "mesh1"
    /\ wk[t].pc = "vadd"
    /\ vtx_count' = vtx_count + 1
    /\ LET k   == WorkloadBlockIdx(wk[t].w)
           vox == WorkloadToCoord(WorkloadVoxelIdx(wk[t].w))
           e   == NextVertexEdge(k, vox, wk[t].loc[1] + 1)
       IN  wk' = [wk EXCEPT ![t] =
                    IF e < 3 THEN [@ EXCEPT !.loc = <<e>>] ELSE IdleWk]
    /\ UNCHANGED <<kernel, next, block_keys, block_values, indices,
                   weight_threshold, integrateVars, pointsVars,
                   mesh_structure, total_vtx_count, vertices, triangle_count,
                   triangles, tri_emit, fault>>
    /\ UNCHANGED <<rangeVars, rayCastVars>>

\* pass 1 is complete: the count is taken, the counter is reset, vertices,
\* normals and (for a voxel type with colour) colors are allocated and pass 2
\* is launched
MeshCountEnd ==
    /\ kernel = "mesh1"
    /\ next = MeshN
    /\ AllIdle
    /\ total_vtx_count' = vtx_count
    /\ vtx_count' = 0
    /\ vertices' = NewRows(vtx_count)
    /\ normals' = NewRows(vtx_count)
    /\ colors' = IF opts.has_color THEN NewRows(vtx_count) ELSE colors
    /\ kernel' = "mesh2"
    /\ next' = 0
    /\ UNCHANGED <<wk, block_keys, block_values, indices, weight_threshold,
                   integrateVars, pointsOnly, opts, emit, overrun,
                   mesh_structure, triangle_count, triangles, tri_emit,
                   fault>>
    /\ UNCHANGED <<rangeVars, rayCastVars>>

\* pass 2: a worker takes the next workload and runs it to its first add
MeshVertexTake(t) ==
    /\ kernel = "mesh2"
    /\ TakesNext(t)
    /\ next < MeshN
    /\ LET k   == WorkloadBlockIdx(next)
           vox == WorkloadToCoord(WorkloadVoxelIdx(next))
           e   == NextVertexEdge(k, vox, 0)
       IN  wk' = IF e < 3
                 THEN [wk EXCEPT ![t] =
                         [pc |-> "vertex", w |-> next, loc |-> <<e>>]]
                 ELSE wk
    /\ next' = next + 1
    /\ UNCHANGED <<kernel, block_keys, block_values, indices,
                   weight_threshold, integrateVars, pointsVars, meshVars>>
    /\ UNCHANGED <<rangeVars, rayCastVars>>

\* pass 2: the neighbour along edge e is read through its pointer,
\* idx = OPEN3D_ATOMIC_ADD(vtx_count_ptr, 1) is stored in channel e and the
\* rows idx are written
MeshVertex(t) ==
    /\ kernel = "mesh2"
    /\ wk[t].pc = "vertex"
    /\ LET k   == WorkloadBlockIdx(wk[t].w)
           vox == WorkloadToCoord(WorkloadVoxelIdx(wk[t].w))
           e   == wk[t].loc[1]
           idx == vtx_count
           row == PointRow(k, vox, e)
           nxt == NextVertexEdge(k, vox, e + 1)
       IN  IF DeviceGetVoxelAt(Shift(vox, e), k) = NoVoxel
           THEN /\ fault' = "voxel_ptr_e"
                /\ kernel' = "fault"
                /\ UNCHANGED <<vtx_count, mesh_structure, vertices, normals,
                               colors, overrun, emit, wk>>
           ELSE /\ vtx_count' = vtx_count + 1
                /\ mesh_structure' =
                      [mesh_structure EXCEPT ![k][vox][e + 1] = idx]
                /\ vertices' = WriteRow(vertices, idx, row.point)
                /\ normals' = WriteRow(normals, idx, row.normal)
                /\ colors' = IF opts.has_color
                             THEN WriteRow(colors, idx, row.color)
                             ELSE colors
                /\ overrun' = overrun
                     \cup Overrun("vertices", vertices, idx)
                     \cup Overrun("normals", normals, idx)
                     \cup (IF opts.has_color
                           THEN Overrun("colors", colors, idx) ELSE {})
                /\ emit' = Append(emit, [k |-> k, vox |-> vox, axis |-> e])
                /\ wk' = [wk EXCEPT ![t] =
                            IF nxt < 3 THEN [@ EXCEPT !.loc = <<nxt>>]
                            ELSE IdleWk]
                /\ UNCHANGED <<fault, kernel>>
    /\ UNCHANGED <<next, block_keys, block_values, indices, weight_threshold,
                   integrateVars, pointsOnly, opts, total_vtx_count,
                   triangle_count, triangles, tri_emit>>
    /\ UNCHANGED <<rangeVars, rayCastVars>>

\* pass 2 is complete: triangles is allocated and pass 3 is launched
\* (MeshVertexEndBug: with total_vtx_count rows)
MeshVertexEndBug ==
    /\ kernel = "mesh2"
    /\ next = MeshN
    /\ AllIdle
    /\ triangle_count' = 0
    /\ triangles' = NewRows(total_vtx_count)
    /\ kernel' = "mesh3"
    /\ next' = 0
    /\ UNCHANGED <<wk, block_keys, block_values, indices, weight_threshold,
                   integrateVars, pointsVars, mesh_structure, vtx_count,
                   total_vtx_count, vertices, tri_emit, fault>>
    /\ UNCHANGED <<rangeVars, rayCastVars>>
MeshVertexEnd ==
    /\ kernel = "mesh2"
    /\ next = MeshN
    /\ AllIdle
    /\ triangle_count' = 0
    /\ triangles' = NewRows(total_vtx_count * 3)
    /\ kernel' = "mesh3"
    /\ next' = 0
    /\ UNCHANGED <<wk, block_keys, block_values, indices, weight_threshold,
                   integrateVars, pointsVars, mesh_structure, vtx_count,
                   total_vtx_count, vertices, tri_emit, fault>>
    /\ UNCHANGED <<rangeVars, rayCastVars>>

\* the loop over the triangles of a row goes on at tri, 16 when it returns
NextTri(table_idx, tri) ==
    IF tri < 16 /\ tri_table(table_idx)[tri + 1] # -1 THEN tri ELSE 16

\* pass 3: a worker takes the next workload and runs it to its first add
MeshTriangleTake(t) ==
    /\ kernel = "mesh3"
    /\ TakesNext(t)
    /\ next < MeshN
    /\ LET k   == WorkloadBlockIdx(next)
           vox == WorkloadToCoord(WorkloadVoxelIdx(next))
           table_idx == mesh_structure[k][vox][4]
       IN  wk' = IF tri_count(table_idx) # 0 /\ NextTri(table_idx, 0) < 16
                 THEN [wk EXCEPT ![t] =
                         [pc |-> "tri", w |-> next, loc |-> <<0>>]]
                 ELSE wk
    /\ next' = next + 1
    /\ UNCHANGED <<kernel, block_keys, block_values, indices,
                   weight_threshold, integrateVars, pointsVars, meshVars>>
    /\ UNCHANGED <<rangeVars, rayCastVars>>

\* pass 3: tri_idx = OPEN3D_ATOMIC_ADD(tri_count_ptr, 1); the vertex indices
\* of the three edges are read from their owners and written in reverse order
MeshTriangle(t) ==
    /\ kernel = "mesh3"
    /\ wk[t].pc = "tri"
    /\ LET k   == WorkloadBlockIdx(wk[t].w)
           vox == WorkloadToCoord(WorkloadVoxelIdx(wk[t].w))
           tri == wk[t].loc[1]
           table_idx == mesh_structure[k][vox][4]
           tri_idx == triangle_count
           own(vertex) ==
               MeshOwner(k, vox, tri_table(table_idx)[tri + vertex + 1])
           at(vertex) ==
               mesh_structure[own(vertex).pos][own(vertex).vox]
                             [own(vertex).edge_i + 1]
           nxt == NextTri(table_idx, tri + 3)
       IN  IF \E vertex \in 0..2 : own(vertex).pos = -1
           THEN /\ fault' = "mesh_struct_ptr_i"
                /\ kernel' = "fault"
                /\ UNCHANGED <<triangle_count, triangles, overrun, tri_emit,
                               wk>>
           ELSE /\ triangle_count' = triangle_count + 1
                /\ triangles' =
                      WriteRow(triangles, tri_idx, <<at(2), at(1), at(0)>>)
                /\ overrun' = overrun
                                \cup Overrun("triangles", triangles, tri_idx)
                /\ tri_emit' =
                      Append(tri_emit, [k |-> k, vox |-> vox, tri |-> tri])
                /\ wk' = [wk EXCEPT ![t] =
                            IF nxt < 16 THEN [@ EXCEPT !.loc = <<nxt>>]
                            ELSE IdleWk]
                /\ UNCHANGED <<fault, kernel>>
    /\ UNCHANGED <<next, block_keys, block_values, indices, weight_threshold,
                   integrateVars, pointsOnly, opts, normals, colors, emit,
                   mesh_structure, vtx_count, total_vtx_count, vertices>>
    /\ UNCHANGED <<rangeVars, rayCastVars>>

\* pass 3 is complete: triangles is cut to the rows counted
MeshEnd ==
    /\ kernel = "mesh3"
    /\ next = MeshN
    /\ AllIdle
    /\ triangles' = SubSeq(triangles, 1, Min(triangle_count, Len(triangles)))
    /\ kernel' = "done"
    /\ UNCHANGED <<next, wk, block_keys, block_values, indices,
                   weight_threshold, integrateVars, pointsVars,
                   mesh_structure, vtx_count, total_vtx_count, vertices,
                   triangle_count, tri_emit, fault>>
    /\ UNCHANGED <<rangeVars, rayCastVars>>

(* Inputs of the ExtractSurfaceMesh model *)

\* grid of GridTable, indices, weight_threshold, voxel type has colour, rows
\* of the output tensors passed; indices lists every allocated block:
\* inv_indices is its inverse
MeshCalls ==
    { [grid |-> 2, indices |-> <<1, 3, 4>>, weight_threshold |-> 0,
       has_color |-> FALSE, len |-> 0],
      [grid |-> 2, indices |-> <<3, 1, 4>>, weight_threshold |-> 1,
       has_color |-> TRUE, len |-> 1],
      [grid |-> 5, indices |-> <<4, 3, 1>>, weight_threshold |-> 0,
       has_color |-> TRUE, len |-> 0],
      [grid |-> 6, indices |-> <<3, 4, 1>>, weight_threshold |-> 0,
       has_color |-> TRUE, len |-> 2] }

\* the tensors vertices, triangles, normals and colors as the caller passes
\* them: len rows left by an earlier use
CallerRows(len) == [i \in 1..len |-> <<i, i, i>>]

InitMesh ==
    /\ RangeUnused
    /\ RayCastUnused
    /\ kernel = "idle"
    /\ next = 0
    /\ wk = [t \in Workers |-> IdleWk]
    /\ block_keys = ExtractKeys
    /\ \E c \in MeshCalls :
          /\ block_values = Grid(c.grid)
          /\ indices = c.indices
          /\ weight_threshold = c.weight_threshold
          /\ opts = [has_color |-> c.has_color, colors |-> TRUE,
                     normals |-> TRUE]
          /\ call = [valid_size |-> 0, len |-> c.len]
          /\ vertices = CallerRows(c.len)
          /\ triangles = CallerRows(c.len)
          /\ normals = CallerRows(c.len)
          /\ colors = CallerRows(c.len)
    /\ valid_size = 0
    /\ max_count = 0
    /\ count = 0
    /\ points = << >>
    /\ emit = << >>
    /\ overrun = {}
    /\ IntegrateUnused
    /\ mesh_structure = << >>
    /\ vtx_count = 0
    /\ total_vtx_count = 0
    /\ triangle_count = 0
    /\ tri_emit = << >>
    /\ fault = "none"

NextMesh ==
    \/ MeshCall
    \/ \E t \in Workers : MeshAnalyzeTake(t)
    \/ \E t \in Workers : MeshMark(t)
    \/ MeshAnalyzeEnd
    \/ \E t \in Workers : MeshCountTake(t)
    \/ \E t \in Workers : MeshCountAdd(t)
    \/ MeshCountEnd
    \/ \E t \in Workers : MeshVertexTake(t)
    \/ \E t \in Workers : MeshVertex(t)
    \/ MeshVertexEnd
    \/ \E t \in Workers : MeshTriangleTake(t)
    \/ \E t \in Workers : MeshTriangle(t)
    \/ MeshEnd

SpecMesh == InitMesh /\ [][NextMesh]_vars

-----------------------------------------------------------------------------
(* Properties of ExtractSurfaceMesh *)

Negative(p) == Deref(VoxelAtWorld(p)).tsdf < 0

\* C7: every vertex that pass 2 allocates is on an edge whose two end voxels
\* exist, have weight above weight_threshold and are classified differently
\* (exactly one has tsdf < 0); the denominator of its ratio is not zero and
\* the ratio is in [0, 1]; pass 2 dereferences no missing neighbour voxel.
C7_VertexOnCrossedEdge ==
    /\ fault \in {"none", "mesh_structure"}
    /\ \A idx \in 0..(Len(emit) - 1) :
          LET e == EmitEdge(idx)
          IN  /\ Trusted(VoxelAtWorld(e[1]))
              /\ Trusted(VoxelAtWorld(Shift(e[1], e[2])))
              /\ Negative(e[1]) # Negative(Shift(e[1], e[2]))
              /\ Deref(VoxelAtWorld(Shift(e[1], e[2]))).tsdf
                    # Deref(VoxelAtWorld(e[1])).tsdf
              /\ idx < Len(vertices)
              /\ OnEdge(vertices[idx + 1], e)

\* vertices at an end of their edge and inside it, next to a cube that was
\* given up
C7_Witness ==
    /\ kernel = "done"
    /\ Len(emit) >= 3
    /\ \E idx \in 0..(Len(emit) - 1) :
          /\ OnEdge(vertices[idx + 1], EmitEdge(idx))
          /\ ~InsideEdge(vertices[idx + 1], EmitEdge(idx))
    /\ \E idx \in 0..(Len(emit) - 1) :
          InsideEdge(vertices[idx + 1], EmitEdge(idx))
    /\ \E k \in 0..(Len(indices) - 1), vox \in Voxels :
          /\ TableIdx(k, vox) = -1
          /\ \A i \in 0..7 : DeviceGetVoxelAt(Corner(vox, i), k) # NoVoxel

CubeCorners(c) ==
    { <<c[1] + d[1], c[2] + d[2], c[3] + d[3]>> :
        d \in (0..1) \X (0..1) \X (0..1) }

\* the cube at world coordinate c is in an active block and its corners all
\* exist and are trusted
CubeComplete(c) ==
    /\ VoxelAtWorld(c) # NoVoxel
    /\ VoxelAtWorld(c).slot \in Range(indices)
    /\ \A p \in CubeCorners(c) : Trusted(VoxelAtWorld(p))

WorldPoints ==
    { WorldCoord(block_keys[s], vox) : s \in DOMAIN block_keys, vox \in Voxels }

\* the cubes that have e as an edge
CubesAt(e) ==
    { <<e[1][1] - d[1], e[1][2] - d[2], e[1][3] - d[3]>> :
        d \in { f \in (0..1) \X (0..1) \X (0..1) : f[e[2] + 1] = 0 } }

\* a vertex is required on edge e (origin, axis): its ends are classified
\* differently and it is an edge of a complete cube
Required(e) ==
    /\ VoxelAtWorld(e[1]) # NoVoxel
    /\ VoxelAtWorld(Shift(e[1], e[2])) # NoVoxel
    /\ Negative(e[1]) # Negative(Shift(e[1], e[2]))
    /\ \E c \in CubesAt(e) : CubeComplete(c)

RequiredEdges == { e \in WorldPoints \X (0..2) : Required(e) }

\* the indices pass 2 has allocated for an edge
VertexIndices(e) == { idx \in 0..(Len(emit) - 1) : EmitEdge(idx) = e }

\* the cube of the j-th triangle (j from 0) and the edge its slot refers to
TriangleCube(j) ==
    WorldCoord(block_keys[indices[tri_emit[j + 1].k + 1]], tri_emit[j + 1].vox)

TriangleEdge(j, vertex) ==
    LET c    == TriangleCube(j)
        type == BitMask({ i \in 0..7 :
                    Negative(<<c[1] + vtx_shifts[i + 1][1],
                               c[2] + vtx_shifts[i + 1][2],
                               c[3] + vtx_shifts[i + 1][3]>>) })
        edge == tri_table(type)[tri_emit[j + 1].tri + vertex + 1]
    IN  << <<c[1] + edge_shifts[edge + 1][1], c[2] + edge_shifts[edge + 1][2],
             c[3] + edge_shifts[edge + 1][3]>>, edge_shifts[edge + 1][4] >>

\* C8: exactly one vertex index is allocated for every edge on which a vertex
\* is required, also for an edge shared by cubes of different voxels or
\* blocks, and every triangle that refers to the edge stores that index.
C8_OneIndexPerEdge ==
    /\ \A idx \in 0..(Len(emit) - 1) :
          /\ Required(EmitEdge(idx))
          /\ VertexIndices(EmitEdge(idx)) = {idx}
    /\ kernel = "done" =>
          \A e \in RequiredEdges : Cardinality(VertexIndices(e)) = 1
    /\ \A j \in 0..(Len(tri_emit) - 1), vertex \in 0..2 :
          /\ j < Len(triangles)
          /\ triangles[j + 1] # Unwritten
          /\ Required(TriangleEdge(j, vertex))
          /\ VertexIndices(TriangleEdge(j, vertex))
                = { triangles[j + 1][(2 - vertex) + 1] }

\* an edge that triangles of cubes in two different blocks refer to
C8_Witness ==
    /\ kernel = "done"
    /\ Len(tri_emit) >= 4
    /\ \E j1, j2 \in 0..(Len(tri_emit) - 1), v1, v2 \in 0..2 :
          /\ tri_emit[j1 + 1].k # tri_emit[j2 + 1].k
          /\ TriangleEdge(j1, v1) = TriangleEdge(j2, v2)

-----------------------------------------------------------------------------
(* Properties of ExtractSurfacePoints: overflow and order *)

\* the call was given a valid_size >= 0 that the crossing edges exceed
Overflowed ==
    /\ call.valid_size >= 0
    /\ Cardinality(CrossingEdges) > call.valid_size

\* C11: on overflow of the valid_size supplied by the caller, the valid_size
\* returned is the number of crossing edges over all voxels and all three
\* axes, the dropped ones included, whatever the interleaving.
C11_TotalReported ==
    (kernel = "done" /\ Overflowed) =>
        valid_size = Cardinality(CrossingEdges)

\* a workload whose first fetch-add is dropped returns: its crossings on the
\* remaining axes are not counted
C11_Witness ==
    /\ kernel = "done" /\ Overflowed
    /\ valid_size = Len(emit)
    /\ valid_size < Cardinality(CrossingEdges)
    /\ \E idx \in 0..(Len(emit) - 1) :
          /\ Dropped(idx)
          /\ NextCrossing(emit[idx + 1].k, emit[idx + 1].vox,
                          emit[idx + 1].axis + 1) < 3

-----------------------------------------------------------------------------
(* Properties of ExtractSurfaceMesh: failure of the allocation *)

\* C12: when mesh_structure cannot be allocated, the error is raised to the
\* caller before any pass runs: no workload of any pass was taken, and
\* vertices, triangles, normals and colors are the tensors the caller passed.
C12_AllocationFailure ==
    fault = "mesh_structure" =>
        /\ kernel = "raised"
        /\ next = 0 /\ AllIdle
        /\ mesh_structure = << >>
        /\ emit = << >> /\ tri_emit = << >>
        /\ vertices = CallerRows(call.len)
        /\ triangles = CallerRows(call.len)
        /\ normals = CallerRows(call.len)
        /\ colors = CallerRows(call.len)

C12_Witness ==
    /\ fault = "mesh_structure"
    /\ kernel = "raised"
    /\ call.len > 0
    /\ vertices = CallerRows(call.len)

-----------------------------------------------------------------------------
(* EstimateRangeCPU *)

\* the fragments are fragment_size x fragment_size pixels and the fragment
\* buffer has frag_buffer_size rows (16 and 65535 in the source)
fragment_size == 2
frag_buffer_size == 5

\* max(a, b), also written delta < voxel_size ? voxel_size : delta by the
\* march of RayCast (MaxBug: the second operand whatever the first)
MaxBug(a, b) == b

Max(a, b) == IF a > b THEN a ELSE b

\* floor and ceil of the fraction p/q, q > 0
Floor(p, q) == p \div q
Ceil(p, q) == -((-p) \div q)

h_down == camera.h \div camera.down_factor
w_down == camera.w \div camera.down_factor

RangeN == Cardinality(DOMAIN block_keys)

\* the corners of the block with key key ((key + bit) * block_resolution, in
\* voxels) in camera coordinates, those in front of the camera only
CornersInFront(key) ==
    { pc \in { RigidTransform(camera.ext,
                   << (key[1] + Bit(i, 0)) * resolution,
                      (key[2] + Bit(i, 1)) * resolution,
                      (key[3] + Bit(i, 2)) * resolution >>) : i \in 0..7 } :
         pc[3] > 0 }

SetMin(S) == CHOOSE a \in S : \A b \in S : a <= b
SetMax(S) == CHOOSE a \in S : \A b \in S : a >= b

\* the rectangle of the downsampled image that holds the projections of the
\* corners, clipped to the image, and the range of their depths
BlockRect(key) ==
    LET C == CornersInFront(key)
        U(pc) == camera.K.fx * pc[1] + camera.K.cx * pc[3]
        V(pc) == camera.K.fy * pc[2] + camera.K.cy * pc[3]
        D(pc) == pc[3] * camera.down_factor
    IN  [v_min |-> Max(0, SetMin({h_down - 1}
                          \cup { Floor(V(pc), D(pc)) : pc \in C })),
         v_max |-> Min(h_down - 1, SetMax({0}
                          \cup { Ceil(V(pc), D(pc)) : pc \in C })),
         u_min |-> Max(0, SetMin({w_down - 1}
                          \cup { Floor(U(pc), D(pc)) : pc \in C })),
         u_max |-> Min(w_down - 1, SetMax({0}
                          \cup { Ceil(U(pc), D(pc)) : pc \in C })),
         z_min |-> SetMin({camera.depth_max} \cup { pc[3] : pc \in C }),
         z_max |-> SetMax({camera.depth_min} \cup { pc[3] : pc \in C })]

\* if (v_min >= v_max || u_min >= u_max || z_min >= z_max) return;
RangeDiscarded(r) ==
    r.v_min >= r.v_max \/ r.u_min >= r.u_max \/ r.z_min >= r.z_max

frag_v_count(r) == Ceil(r.v_max - r.v_min + 1, fragment_size)
frag_u_count(r) == Ceil(r.u_max - r.u_min + 1, fragment_size)

\* int frag_count = frag_v_count * frag_u_count
block_frag_count(r) == frag_v_count(r) * frag_u_count(r)

\* frag_count_end >= frag_buffer_size: the diagnostic is printed
FragmentOverflow(frag_count_start, r) ==
    frag_count_start + block_frag_count(r) >= frag_buffer_size

\* the fragment written at offset offset of the block's slice (FragmentBug:
\* the last fragment of a row or column is not cut at u_max, v_max)
FragmentBug(r, offset) ==
    LET frag_v == offset \div frag_u_count(r)
        frag_u == offset % frag_u_count(r)
        v0 == r.v_min + frag_v * fragment_size
        u0 == r.u_min + frag_u * fragment_size
    IN  [z_min |-> r.z_min, z_max |-> r.z_max,
         v_min |-> v0, u_min |-> u0,
         v_max |-> v0 + fragment_size - 1,
         u_max |-> u0 + fragment_size - 1]
Fragment(r, offset) ==
    LET frag_v == offset \div frag_u_count(r)
        frag_u == offset % frag_u_count(r)
        v0 == r.v_min + frag_v * fragment_size
        u0 == r.u_min + frag_u * fragment_size
    IN  [z_min |-> r.z_min, z_max |-> r.z_max,
         v_min |-> v0, u_min |-> u0,
         v_max |-> Min(v0 + fragment_size - 1, r.v_max),
         u_max |-> Min(u0 + fragment_size - 1, r.u_max)]

\* what EstimateRange leaves alone
rangeFrame == <<block_keys, block_values, indices, weight_threshold,
                integrateVars, opts, valid_size, max_count, points, normals,
                colors, emit, call, meshVars, camera, rayCastVars>>

\* entry: range_minmax_map and fragment_buffer are allocated, the counter is 0
RangeCall ==
    /\ kernel = "idle"
    /\ range_minmax_map' =
          [uv \in (0..(w_down - 1)) \X (0..(h_down - 1)) |-> Unwritten]
    /\ fragment_buffer' = NewRows(frag_buffer_size)
    /\ count' = 0
    /\ kernel' = "range0"
    /\ next' = 0
    /\ UNCHANGED <<wk, rangeFrame, overrun, frag_count, frag_emit>>

\* pass 0: a worker takes the next block, forms its rectangle and does
\* frag_count_start = OPEN3D_ATOMIC_ADD(count_ptr, 1)
RangeFragmentTake(t) ==
    /\ kernel = "range0"
    /\ TakesNext(t)
    /\ next < RangeN
    /\ LET r == BlockRect(block_keys[next])
       IN  IF RangeDiscarded(r)
           THEN UNCHANGED <<wk, count>>
           ELSE /\ count' = count + 1
                /\ wk' = [wk EXCEPT ![t] =
                            [pc |-> "fragment", w |-> next,
                             loc |-> <<count, 0>>]]
    /\ next' = next + 1
    /\ UNCHANGED <<kernel, rangeFrame, overrun, fragment_buffer,
                   range_minmax_map, frag_count, frag_emit>>

\* pass 0: the fragment at offset loc[2] is written at row
\* frag_count_start + offset; nothing ends the loops before
\* frag_v_count * frag_u_count fragments are written
RangeFragment(t) ==
    /\ kernel = "range0"
    /\ wk[t].pc = "fragment"
    /\ LET r == BlockRect(block_keys[wk[t].w])
           frag_count_start == wk[t].loc[1]
           offset == wk[t].loc[2]
           idx == frag_count_start + offset
       IN  /\ fragment_buffer' = WriteRow(fragment_buffer, idx,
                                          Fragment(r, offset))
           /\ overrun' = overrun
                 \cup Overrun("fragment_buffer", fragment_buffer, idx)
           /\ frag_emit' = frag_emit
                 \cup {[w |-> wk[t].w, offset |-> offset, idx |-> idx]}
           /\ wk' = [wk EXCEPT ![t] =
                        IF offset + 1 < block_frag_count(r)
                        THEN [@ EXCEPT !.loc = <<frag_count_start, offset + 1>>]
                        ELSE IdleWk]
    /\ UNCHANGED <<kernel, next, rangeFrame, count, range_minmax_map,
                   frag_count>>

\* frag_count = (*count_ptr).load(); pass 0.5 is launched
RangeFragmentEnd ==
    /\ kernel = "range0"
    /\ next = RangeN
    /\ AllIdle
    /\ frag_count' = count
    /\ kernel' = "range05"
    /\ next' = 0
    /\ UNCHANGED <<wk, rangeFrame, count, overrun, fragment_buffer,
                   range_minmax_map, frag_emit>>

\* pass 0.5: the pixel of the workload is set to (depth_max, depth_min)
RangeFill(t) ==
    /\ kernel = "range05"
    /\ TakesNext(t)
    /\ next < h_down * w_down
    /\ LET v == next \div w_down
           u == next % w_down
       IN  range_minmax_map' =
              [range_minmax_map EXCEPT ![<<u, v>>] =
                  <<camera.depth_max, camera.depth_min>>]
    /\ next' = next + 1
    /\ UNCHANGED <<kernel, wk, rangeFrame, count, overrun, fragment_buffer,
                   frag_count, frag_emit>>

RangeFillEnd ==
    /\ kernel = "range05"
    /\ next = h_down * w_down
    /\ AllIdle
    /\ kernel' = "range1"
    /\ next' = 0
    /\ UNCHANGED <<wk, rangeFrame, count, overrun, fragment_buffer,
                   range_minmax_map, frag_count, frag_emit>>

\* pass 1: a worker takes the next (fragment, pixel) and reads the fragment;
\* a pixel outside the fragment ends the workload
RangeRasterTake(t) ==
    /\ kernel = "range1"
    /\ TakesNext(t)
    /\ next < frag_count * fragment_size * fragment_size
    /\ LET frag_idx == next \div (fragment_size * fragment_size)
           local_idx == next % (fragment_size * fragment_size)
           dv == local_idx \div fragment_size
           du == local_idx % fragment_size
           frag == fragment_buffer[frag_idx + 1]
           v == frag.v_min + dv
           u == frag.u_min + du
       IN  wk' = IF v > frag.v_max \/ u > frag.u_max THEN wk
                 ELSE [wk EXCEPT ![t] =
                         [pc |-> "raster", w |-> next,
                          loc |-> <<u, v, frag.z_min, frag.z_max>>]]
    /\ next' = next + 1
    /\ UNCHANGED <<kernel, rangeFrame, count, overrun, fragment_buffer,
                   range_minmax_map, frag_count, frag_emit>>

\* pass 1: the critical section lowers the near and raises the far value
\* (RangeRasterBug: it stores the values of the fragment)
RangeRasterBug(t) ==
    /\ kernel = "range1"
    /\ wk[t].pc = "raster"
    /\ LET uv == <<wk[t].loc[1], wk[t].loc[2]>>
       IN  range_minmax_map' =
              [range_minmax_map EXCEPT ![uv] =
                  << wk[t].loc[3], wk[t].loc[4] >>]
    /\ wk' = [wk EXCEPT ![t] = IdleWk]
    /\ UNCHANGED <<kernel, next, rangeFrame, count, overrun, fragment_buffer,
                   frag_count, frag_emit>>
RangeRaster(t) ==
    /\ kernel = "range1"
    /\ wk[t].pc = "raster"
    /\ LET uv == <<wk[t].loc[1], wk[t].loc[2]>>
       IN  range_minmax_map' =
              [range_minmax_map EXCEPT ![uv] =
                  << Min(wk[t].loc[3], @[1]), Max(wk[t].loc[4], @[2]) >>]
    /\ wk' = [wk EXCEPT ![t] = IdleWk]
    /\ UNCHANGED <<kernel, next, rangeFrame, count, overrun, fragment_buffer,
                   frag_count, frag_emit>>

RangeEnd ==
    /\ kernel = "range1"
    /\ next = frag_count * fragment_size * fragment_size
    /\ AllIdle
    /\ kernel' = "done"
    /\ UNCHANGED <<next, wk, rangeFrame, count, overrun, fragment_buffer,
                   range_minmax_map, frag_count, frag_emit>>

(* Inputs of the EstimateRange model *)

\* block_keys (rows 0..n-1), intrinsics, pose.Inverse(): the camera looks
\* along +z from 100 mm in front of the origin, or from 60 mm with the origin
\* block partly outside the image
RangeCalls ==
    { [keys |-> (0 :> <<0, 0, 0>>),
       K |-> [fx |-> 20, fy |-> 20, cx |-> 0, cy |-> 0],
       ext |-> [rot |-> Identity, t |-> <<0, 0, 100>>]],
      [keys |-> (0 :> <<0, 0, 0>>) @@ (1 :> <<0, 0, 1>>),
       K |-> [fx |-> 10, fy |-> 10, cx |-> 0, cy |-> 0],
       ext |-> [rot |-> Identity, t |-> <<0, 0, 100>>]],
      [keys |-> (0 :> <<1, 0, 0>>) @@ (1 :> <<0, 0, -6>>) @@ (2 :> <<0, 0, 0>>),
       K |-> [fx |-> 20, fy |-> 20, cx |-> 0, cy |-> 0],
       ext |-> [rot |-> Identity, t |-> <<0, 0, 100>>]],
      [keys |-> (0 :> <<0, 0, 0>>) @@ (1 :> <<1, 0, 0>>) @@ (2 :> <<1, 0, 1>>),
       K |-> [fx |-> 20, fy |-> 20, cx |-> 2, cy |-> 0],
       ext |-> [rot |-> Identity, t |-> <<-20, 0, 60>>]] }

InitRange ==
    /\ kernel = "idle"
    /\ next = 0
    /\ wk = [t \in Workers |-> IdleWk]
    /\ \E c \in RangeCalls :
          /\ block_keys = c.keys
          /\ camera = [K |-> c.K, ext |-> c.ext, h |-> 8, w |-> 8,
                       down_factor |-> 2, depth_min |-> 10,
                       depth_max |-> 300]
    /\ block_values = << >>
    /\ indices = << >>
    /\ weight_threshold = 0
    /\ opts = [has_color |-> FALSE, colors |-> FALSE, normals |-> FALSE]
    /\ valid_size = 0
    /\ max_count = 0
    /\ count = 0
    /\ points = << >>
    /\ normals = << >>
    /\ colors = << >>
    /\ emit = << >>
    /\ overrun = {}
    /\ call = [valid_size |-> 0, len |-> 0]
    /\ fragment_buffer = << >>
    /\ range_minmax_map = << >>
    /\ frag_count = 0
    /\ frag_emit = {}
    /\ IntegrateUnused
    /\ MeshUnused
    /\ RayCastUnused

NextRange ==
    \/ RangeCall
    \/ \E t \in Workers : RangeFragmentTake(t)
    \/ \E t \in Workers : RangeFragment(t)
    \/ RangeFragmentEnd
    \/ \E t \in Workers : RangeFill(t)
    \/ RangeFillEnd
    \/ \E t \in Workers : RangeRasterTake(t)
    \/ \E t \in Workers : RangeRaster(t)
    \/ RangeEnd

SpecRange == InitRange /\ [][NextRange]_vars

-----------------------------------------------------------------------------
(* Properties of EstimateRange *)

\* the blocks that pass 0 retains
Retained == { w \in DOMAIN block_keys : ~RangeDiscarded(BlockRect(block_keys[w])) }

\* the blocks for which the diagnostic of the fragment buffer was printed
Overflowing ==
    { e.w : e \in { f \in frag_emit :
         /\ f.offset = 0
         /\ FragmentOverflow(f.idx, BlockRect(block_keys[f.w])) } }

\* C13: after a call without overflow of the fragment buffer, every pixel of
\* the clipped rectangle of every retained block has a near value <= the
\* block's z_min and a far value >= the block's z_max.
C13_RangeCovers ==
    (kernel = "done" /\ Overflowing = {}) =>
        \A w \in Retained :
            LET r == BlockRect(block_keys[w])
            IN  \A u \in r.u_min..r.u_max, v \in r.v_min..r.v_max :
                   /\ range_minmax_map[<<u, v>>][1] <= r.z_min
                   /\ range_minmax_map[<<u, v>>][2] >= r.z_max

\* a call without overflow after which a pixel of a retained block's rectangle
\* holds the values of pass 0.5, and one where all rectangles are covered
C13_Witness ==
    /\ kernel = "done" /\ Overflowing = {}
    /\ \E w \in Retained :
          LET r == BlockRect(block_keys[w])
          IN  /\ block_frag_count(r) > 1
              /\ range_minmax_map[<<r.u_max, r.v_max>>]
                    = <<camera.depth_max, camera.depth_min>>

\* C14: the slices [start, start + frag_count) of two different blocks do not
\* overlap: no row of the fragment buffer is written by two blocks.
C14_SlicesDisjoint ==
    \A a, b \in frag_emit : a.idx = b.idx => a.w = b.w

\* two blocks wrote the same row, and the counter is the number of retained
\* blocks, not of fragments
C14_Witness ==
    /\ kernel = "done"
    /\ frag_count = Cardinality(Retained)
    /\ frag_count < Cardinality(frag_emit)
    /\ \E a, b \in frag_emit : a.idx = b.idx /\ a.w # b.w

\* C15: a block for which the diagnostic is printed emits no fragment, and no
\* fragment is written at a row >= frag_buffer_size.
C15_OverflowDropped ==
    /\ \A e \in frag_emit : e.w \notin Overflowing
    /\ \A e \in frag_emit : e.idx < frag_buffer_size
    /\ overrun = {}

\* a write past the end of the fragment buffer
C15_Witness ==
    /\ <<"fragment_buffer", frag_buffer_size>> \in overrun
    /\ \E e \in frag_emit : e.w \in Overflowing /\ e.idx = frag_buffer_size

-----------------------------------------------------------------------------
(* RayCastCPU, RayCastCUDA *)

\* the build is for the device hashmap.device; the cast to the hash map of
\* that device (TBB on the CPU, STDGPU on CUDA) gives nullptr for another
\* backend
CastFailed ==
    hashmap.backend # (IF hashmap.device = "CUDA" THEN "STDGPU" ELSE "TBB")

\* bool enable_x = (x_map.GetLength() != 0), the lengths as passed
enable_vertex == call.vertex # 0
enable_depth == call.depth # 0
enable_colorBug == call.color # 0 \/ call.normal # 0
enable_color == call.color # 0
enable_normal == call.normal # 0

block_size == voxel_size * resolution

\* rot applied to the vector p
Rotate(rot, p) ==
    [i \in 1..3 |-> rot[i][1] * p[1] + rot[i][2] * p[2] + rot[i][3] * p[3]]

\* the point (x_o, y_o, z_o) + (n / d) (x_d, y_d, z_d) of the ray of pixel
\* (x, y), d > 0, as numerators num over the denominator den: the direction
\* is Unproject(x, y, 1) rotated by the pose
RayPoint(x, y, n, d) ==
    LET K == camera.K
        dir == Rotate(camera.pose.rot,
                      <<(x - K.cx) * K.fy, (y - K.cy) * K.fx, K.fx * K.fy>>)
    IN  [num |-> [i \in 1..3 |->
                     camera.pose.t[i] * K.fx * K.fy * d + n * dir[i]],
         den |-> K.fx * K.fy * d]

\* the block of a point and the coordinate in that block (not truncated)
PointBlock(P) == [i \in 1..3 |-> Floor(P.num[i], P.den * block_size)]

PointVoxelFloor(P) ==
    [i \in 1..3 |->
        Floor(P.num[i] - PointBlock(P)[i] * block_size * P.den,
              P.den * voxel_size)]

\* the voxel at parameter t of the ray, NoVoxel if its block is not in the
\* hash map
GetVoxelAtT(x, y, t) ==
    LET P == RayPoint(x, y, t, 1)
        slot == SlotOfKey(PointBlock(P))
    IN  IF slot = -1 THEN NoVoxel
        ELSE [slot |-> slot, vox |-> PointVoxelFloor(P)]

\* tsdf_prev > 0 && w >= weight_threshold && tsdf <= 0
RayCrossingBug(tsdf_prev, voxel) ==
    tsdf_prev > 0 /\ voxel.weight > weight_threshold /\ voxel.tsdf <= 0

RayCrossing(tsdf_prev, voxel) ==
    tsdf_prev > 0 /\ voxel.weight >= weight_threshold /\ voxel.tsdf <= 0

\* map[x, y] = value
WriteMap(map, xy, value) == (xy :> value) @@ map

\* what RayCast leaves alone
rayCastFrame == <<block_keys, block_values, indices, weight_threshold,
                  integrateVars, pointsVars, mesh_structure, vtx_count,
                  total_vtx_count, vertices, triangle_count, triangles,
                  tri_emit, rangeVars, hashmap>>

\* without an enabled map LogWarning is called and the call returns
RayCastLaunch ==
    IF ~enable_vertex /\ ~enable_depth /\ ~enable_color /\ ~enable_normal
    THEN "warned" ELSE "raycast"

\* entry, CUDA: a failed cast is reported by utility::LogError, which raises;
\* CPU: the cast is dereferenced unchecked, and a failed cast is a null
\* pointer dereference: the call crashes or goes on with what it read.
\* Then, without an enabled map, the call warns and returns.
RayCastCall ==
    /\ kernel = "idle"
    /\ \/ /\ CastFailed /\ hashmap.device = "CUDA"
          /\ fault' = "Unsupported backend"
          /\ kernel' = "raised"
       \/ /\ CastFailed /\ hashmap.device = "CPU"
          /\ fault' = "cpu_hashmap"
          /\ kernel' \in {"fault", RayCastLaunch}
       \/ /\ ~CastFailed
          /\ UNCHANGED fault
          /\ kernel' = RayCastLaunch
    /\ next' = 0
    /\ UNCHANGED <<wk, rayCastFrame, vertex_map, depth_map, color_map,
                   normal_map>>

\* a worker takes the next pixel: t = depth_min, t_prev = t, tsdf_prev = 1,
\* step = 0; no map is touched (RayCastTakeBug: the entries of the pixel are
\* cleared first)
RayCastTakeBug(t) ==
    /\ kernel = "raycast"
    /\ TakesNext(t)
    /\ next < camera.h * camera.w
    /\ wk' = IF camera.max_steps = 0 THEN wk
             ELSE [wk EXCEPT ![t] =
                     [pc |-> "march", w |-> next,
                      loc |-> <<camera.depth_min, camera.depth_min,
                                TsdfOne, 0>>]]
    /\ next' = next + 1
    /\ depth_map' =
          IF enable_depth
          THEN WriteMap(depth_map, <<next % camera.w, next \div camera.w>>,
                        <<0, 1000>>)
          ELSE depth_map
    /\ UNCHANGED <<kernel, rayCastFrame, fault, vertex_map, color_map,
                   normal_map>>

RayCastTake(t) ==
    /\ kernel = "raycast"
    /\ TakesNext(t)
    /\ next < camera.h * camera.w
    /\ wk' = IF camera.max_steps = 0 THEN wk
             ELSE [wk EXCEPT ![t] =
                     [pc |-> "march", w |-> next,
                      loc |-> <<camera.depth_min, camera.depth_min,
                                TsdfOne, 0>>]]
    /\ next' = next + 1
    /\ UNCHANGED <<kernel, rayCastFrame, fault, vertex_map, depth_map,
                   color_map, normal_map>>

\* one iteration of the loop over step: the block is absent and t advances
\* by block_size; or a crossing is found, the enabled maps are written and
\* the loop is left (colour and normal only if the block of the crossing is
\* in the hash map; their entry stands for the value interpolated at the
\* crossing); or t advances by max(voxel_size, tsdf * sdf_trunc)
RayCastStep(w) ==
    /\ kernel = "raycast"
    /\ wk[w].pc = "march"
    /\ LET y == wk[w].w \div camera.w
           x == wk[w].w % camera.w
           t == wk[w].loc[1]
           t_prev == wk[w].loc[2]
           tsdf_prev == wk[w].loc[3]
           step == wk[w].loc[4]
           voxel_ptr == GetVoxelAtT(x, y, t)
           voxel == IF voxel_ptr = NoVoxel THEN EmptyVoxel
                    ELSE Deref(voxel_ptr)
           found == voxel_ptr # NoVoxel /\ RayCrossing(tsdf_prev, voxel)
           n == t * tsdf_prev - t_prev * voxel.tsdf
           d == tsdf_prev - voxel.tsdf
           P == RayPoint(x, y, n, d)
           interpolated == found /\ SlotOfKey(PointBlock(P)) # -1
           continue(t_next, tsdf_next) ==
               IF step + 1 < camera.max_steps
               THEN [wk EXCEPT ![w].loc = <<t_next, t, tsdf_next, step + 1>>]
               ELSE [wk EXCEPT ![w] = IdleWk]
       IN  /\ wk' = IF voxel_ptr = NoVoxel
                    THEN continue(t + block_size, tsdf_prev)
                    ELSE IF found THEN [wk EXCEPT ![w] = IdleWk]
                    ELSE continue(t + Max(voxel_size, voxel.tsdf), voxel.tsdf)
           /\ depth_map' =
                 IF found /\ enable_depth
                 THEN WriteMap(depth_map, <<x, y>>,
                               <<n * depth_scale, d * 1000>>)
                 ELSE depth_map
           /\ vertex_map' =
                 IF found /\ enable_vertex
                 THEN WriteMap(vertex_map, <<x, y>>, P)
                 ELSE vertex_map
           /\ color_map' =
                 IF interpolated /\ enable_color
                 THEN WriteMap(color_map, <<x, y>>, P)
                 ELSE color_map
           /\ normal_map' =
                 IF interpolated /\ enable_normal
                 THEN WriteMap(normal_map, <<x, y>>, P)
                 ELSE normal_map
    /\ UNCHANGED <<kernel, next, rayCastFrame, fault>>

RayCastEnd ==
    /\ kernel = "raycast"
    /\ next = camera.h * camera.w
    /\ AllIdle
    /\ kernel' = "done"
    /\ UNCHANGED <<next, wk, rayCastFrame, fault, vertex_map, depth_map,
                   color_map, normal_map>>

(* Inputs of the RayCast model *)

\* hash map backend, device of the build, grid of GridTable, origin of the
\* camera (which looks along -z from above the grid), lengths of the maps
\* passed, depth_max, weight_threshold
RayCastCalls ==
    { [backend |-> "TBB", device |-> "CPU", grid |-> 5, t |-> <<25, 5, 45>>,
       vertex |-> 4, depth |-> 4, color |-> 4, normal |-> 4,
       depth_max |-> 300, weight_threshold |-> 0],
      [backend |-> "TBB", device |-> "CPU", grid |-> 5, t |-> <<25, 5, 45>>,
       vertex |-> 0, depth |-> 4, color |-> 0, normal |-> 4,
       depth_max |-> 30, weight_threshold |-> 1],
      [backend |-> "STDGPU", device |-> "CUDA", grid |-> 1, t |-> <<5, 5, 45>>,
       vertex |-> 4, depth |-> 4, color |-> 4, normal |-> 0,
       depth_max |-> 300, weight_threshold |-> 1],
      [backend |-> "STDGPU", device |-> "CUDA", grid |-> 5, t |-> <<5, 5, 45>>,
       vertex |-> 4, depth |-> 0, color |-> 4, normal |-> 0,
       depth_max |-> 300, weight_threshold |-> 1],
      [backend |-> "STDGPU", device |-> "CUDA", grid |-> 5, t |-> <<25, 5, 45>>,
       vertex |-> 0, depth |-> 0, color |-> 0, normal |-> 0,
       depth_max |-> 300, weight_threshold |-> 0],
      [backend |-> "TBB", device |-> "CUDA", grid |-> 5, t |-> <<25, 5, 45>>,
       vertex |-> 0, depth |-> 4, color |-> 0, normal |-> 0,
       depth_max |-> 300, weight_threshold |-> 0],
      [backend |-> "STDGPU", device |-> "CPU", grid |-> 5, t |-> <<25, 5, 45>>,
       vertex |-> 4, depth |-> 4, color |-> 0, normal |-> 0,
       depth_max |-> 300, weight_threshold |-> 0],
      [backend |-> "TBB", device |-> "CPU", grid |-> 5, t |-> <<5, 5, 45>>,
       vertex |-> 4, depth |-> 4, color |-> 0, normal |-> 4,
       depth_max |-> 300, weight_threshold |-> 0] }

\* a map of len entries as the caller passes it
CallerMap(len) ==
    IF len = 0 THEN << >>
    ELSE [xy \in (0..1) \X (0..1) |-> Unwritten]

InitRayCast ==
    /\ fragment_buffer = << >>
    /\ range_minmax_map = << >>
    /\ frag_count = 0
    /\ frag_emit = {}
    /\ kernel = "idle"
    /\ next = 0
    /\ wk = [t \in Workers |-> IdleWk]
    /\ block_keys = ExtractKeys
    /\ indices = << >>
    /\ \E c \in RayCastCalls :
          /\ block_values = Grid(c.grid)
          /\ hashmap = [backend |-> c.backend, device |-> c.device]
          /\ call = [vertex |-> c.vertex, depth |-> c.depth,
                     color |-> c.color, normal |-> c.normal]
          /\ vertex_map = CallerMap(c.vertex)
          /\ depth_map = CallerMap(c.depth)
          /\ color_map = CallerMap(c.color)
          /\ normal_map = CallerMap(c.normal)
          /\ weight_threshold = c.weight_threshold
          /\ camera = [K |-> [fx |-> 10, fy |-> 10, cx |-> 0, cy |-> 0],
                       pose |-> [rot |-> << <<1, 0, 0>>, <<0, -1, 0>>,
                                            <<0, 0, -1>> >>, t |-> c.t],
                       h |-> 2, w |-> 2,
                       depth_min |-> 10, depth_max |-> c.depth_max,
                       max_steps |-> 6]
    /\ opts = [has_color |-> TRUE, colors |-> TRUE, normals |-> TRUE]
    /\ valid_size = 0
    /\ max_count = 0
    /\ count = 0
    /\ points = << >>
    /\ normals = << >>
    /\ colors = << >>
    /\ emit = << >>
    /\ overrun = {}
    /\ IntegrateUnused
    /\ MeshUnused

NextRayCast ==
    \/ RayCastCall
    \/ \E t \in Workers : RayCastTake(t)
    \/ \E t \in Workers : RayCastStep(t)
    \/ RayCastEnd

SpecRayCast == InitRayCast /\ [][NextRayCast]_vars

-----------------------------------------------------------------------------
(* Properties of RayCast *)

\* C16: with the four maps of length zero (and a hash map of the device's
\* backend) RayCast warns and returns: no workload is taken and no map is
\* written; with some map enabled, a map of length zero is never written.
C16_DisabledMaps ==
    /\ (/\ ~enable_vertex /\ ~enable_depth /\ ~enable_color /\ ~enable_normal
        /\ ~CastFailed /\ kernel # "idle")
          => kernel = "warned" /\ next = 0 /\ AllIdle
    /\ call.vertex = 0 => vertex_map = << >>
    /\ call.depth = 0 => depth_map = << >>
    /\ call.color = 0 => color_map = << >>
    /\ call.normal = 0 => normal_map = << >>

\* a crossing was written to the normal map with the colour map disabled
C16_Witness ==
    /\ kernel = "done"
    /\ call.color = 0 /\ call.vertex = 0 /\ call.normal # 0
    /\ \E xy \in DOMAIN normal_map : normal_map[xy] # Unwritten
    /\ color_map = << >>

\* C17: a hash map of another backend than the device's is reported as a
\* fatal error before it is used, on the CPU as on CUDA: the failed cast is
\* never dereferenced.
C17_BackendChecked ==
    CastFailed =>
        /\ kernel \in {"idle", "raised"}
        /\ fault \in {"none", "Unsupported backend"}

\* the CPU build dereferenced the null pointer of the failed cast
C17_Witness ==
    /\ CastFailed
    /\ hashmap.device = "CPU"
    /\ fault = "cpu_hashmap"

\* t_intersect of the crossing written at a pixel of the depth map
\* (*depth = t_intersect * depth_scale), as a fraction in millimetres
IntersectAt(xy) ==
    [num |-> depth_map[xy][1] \div depth_scale,
     den |-> depth_map[xy][2] \div 1000]

\* C18: every march starts at t = depth_min, and no crossing is written with
\* t_intersect > depth_max.
C18_Clipped ==
    /\ \A w \in Workers :
          (wk[w].pc = "march" /\ wk[w].loc[4] = 0)
              => wk[w].loc[1] = camera.depth_min
    /\ \A xy \in DOMAIN depth_map :
          depth_map[xy] # Unwritten =>
              IntersectAt(xy).num <= camera.depth_max * IntersectAt(xy).den

\* a crossing beyond depth_max is in the depth map (and in the normal map)
C18_Witness ==
    /\ kernel = "done"
    /\ \E xy \in DOMAIN depth_map :
          /\ depth_map[xy] # Unwritten
          /\ IntersectAt(xy).num > camera.depth_max * IntersectAt(xy).den
          /\ normal_map[xy] # Unwritten

-----------------------------------------------------------------------------
(* Properties of ExtractSurfaceMesh: the marks of pass 0 *)

\* the table index of the cube at world coordinate c
CubeType(c) ==
    BitMask({ i \in 0..7 :
        Negative(<<c[1] + vtx_shifts[i + 1][1], c[2] + vtx_shifts[i + 1][2],
                   c[3] + vtx_shifts[i + 1][3]>>) })

\* some cube with all 8 corners present and trusted and a table index other
\* than 0 and 255 has the edge e (origin, axis) set in edge_table
Marked(e) ==
    \E c \in CubesAt(e) :
        /\ CubeComplete(c)
        /\ CubeType(c) \notin {0, 255}
        /\ \E m \in 0..11 :
              /\ Bit(edge_table(CubeType(c)), m) = 1
              /\ e = << <<c[1] + edge_shifts[m + 1][1],
                          c[2] + edge_shifts[m + 1][2],
                          c[3] + edge_shifts[m + 1][3]>>,
                        edge_shifts[m + 1][4] >>

\* the world coordinate of voxel vox of the block at position k of indices
VoxelWorld(k, vox) == WorldCoord(block_keys[indices[k + 1]], vox)

\* channels 0..2 during pass 0 and after it
MarksStable ==
    kernel \in {"mesh0", "mesh1"} =>
        \A k \in 0..(Len(indices) - 1), vox \in Voxels, e \in 0..2 :
            LET ch == mesh_structure[k][vox][e + 1]
            IN  /\ ch \in {0, -1}
                /\ ch = -1 => Marked(<<VoxelWorld(k, vox), e>>)
                /\ (kernel = "mesh1" /\ Marked(<<VoxelWorld(k, vox), e>>))
                      => ch = -1

\* a step that changes channel 3 of a voxel is the step of pass 0 that takes
\* the workload of that voxel
OwnTableIndex ==
    \A k \in 0..(Len(indices) - 1), vox \in Voxels :
        (/\ mesh_structure # << >> /\ mesh_structure' # << >>
         /\ mesh_structure'[k][vox][4] # mesh_structure[k][vox][4])
            => /\ kernel = "mesh0"
               /\ next' = next + 1
               /\ WorkloadBlockIdx(next) = k
               /\ WorkloadToCoord(WorkloadVoxelIdx(next)) = vox

\* C20: the marks of pass 0 are value-stable: under every interleaving, after
\* pass 0 channel e (0..2) of a voxel is -1 if and only if some cube with all
\* 8 corners present and trusted and a table index not in {0, 255} has that
\* edge set in edge_table, and is 0 otherwise; channel 3 of a voxel is written
\* only by the workload of that voxel.
C20_MarksValueStable == []MarksStable /\ [][OwnTableIndex]_vars

\* after pass 0 an edge is marked that two cubes of different blocks have in
\* their edge_table, and an edge of a complete cube is not marked
C20_Witness ==
    /\ kernel = "mesh1"
    /\ \E k \in 0..(Len(indices) - 1), vox \in Voxels, e \in 0..2 :
          /\ mesh_structure[k][vox][e + 1] = -1
          /\ \E c1, c2 \in CubesAt(<<VoxelWorld(k, vox), e>>) :
                /\ CubeComplete(c1) /\ CubeComplete(c2)
                /\ CubeType(c1) \notin {0, 255}
                /\ CubeType(c2) \notin {0, 255}
                /\ VoxelAtWorld(c1).slot # VoxelAtWorld(c2).slot
    /\ \E k \in 0..(Len(indices) - 1), vox \in Voxels, e \in 0..2 :
          /\ mesh_structure[k][vox][e + 1] = 0
          /\ \E c \in CubesAt(<<VoxelWorld(k, vox), e>>) : CubeComplete(c)

-----------------------------------------------------------------------------
(* ExtractSurfacePoints and ExtractSurfaceMesh: the result does not depend on
   the interleaving *)

\* ExtractSurfacePoints is called on its inputs, ExtractSurfaceMesh on its
\* inputs (the two sets of inputs differ in indices)
InitExtract == InitPoints \/ InitMesh

NextExtract ==
    \/ indices \in PointsIndices /\ NextPoints
    \/ indices \in { c.indices : c \in MeshCalls } /\ NextMesh

SpecExtract == InitExtract /\ [][NextExtract]_vars

\* the rows that the kernels compute for the edge e (origin, axis), from the
\* grid alone
EdgeRow(e) ==
    LET ptr == VoxelAtWorld(e[1])
        row == PointRow(inv_indices(ptr.slot), ptr.vox, e[2])
    IN  << row.point,
           IF extract_normal THEN row.normal ELSE << >>,
           IF extract_color THEN row.color ELSE << >> >>

\* the first len rows of the output
OutRows(len) ==
    [idx \in 1..len |->
        << IF kernel = "done" /\ mesh_structure # << >>
           THEN vertices[idx] ELSE points[idx],
           IF extract_normal THEN normals[idx] ELSE << >>,
           IF extract_color THEN colors[idx] ELSE << >> >>]

\* the rows out are, as a multiset, the values F(e) of the elements e of S
SameMultiset(out, S, F(_)) ==
    /\ Len(out) = Cardinality(S)
    /\ \A e \in S :
          Cardinality({ i \in DOMAIN out : out[i] = F(e) })
             = Cardinality({ f \in S : F(f) = F(e) })

\* the triangles that the tables give for the complete cubes: (cube, tri)
CubeTriangles ==
    { ct \in { c \in WorldPoints : CubeComplete(c) } \X {0, 3, 6, 9, 12} :
         tri_table(CubeType(ct[1]))[ct[2] + 1] # -1 }

\* the triangle (cube, tri) as the edges of its three vertices, in the order
\* of the columns of a row of triangles
TriangleEdges(ct) ==
    LET c == ct[1]
        E(slot) ==
           LET edge == tri_table(CubeType(c))[ct[2] + slot + 1]
           IN  << <<c[1] + edge_shifts[edge + 1][1],
                    c[2] + edge_shifts[edge + 1][2],
                    c[3] + edge_shifts[edge + 1][3]>>,
                  edge_shifts[edge + 1][4] >>
    IN  <<E(2), E(1), E(0)>>

\* the rows of triangles with every vertex index replaced by the edge of the
\* vertex
TrianglesAsEdges ==
    [j \in 1..Len(triangles) |->
        << EmitEdge(triangles[j][1]), EmitEdge(triangles[j][2]),
           EmitEdge(triangles[j][3]) >>]

\* C19: the results are the same under every interleaving up to the output
\* order. ExtractSurfacePoints without overflow: the rows (point, normal,
\* colour) are, as a multiset, the rows of the crossing edges.
\* ExtractSurfaceMesh: the vertex indices are a numbering of the edges that
\* require a vertex, every vertex row is the row of its edge, and the
\* triangles, read as triples of edges, are as a multiset the triangles of
\* the tables for the complete cubes.
C19_OrderOnly ==
    /\ (kernel = "done" /\ mesh_structure = << >> /\ NoOverflow) =>
          SameMultiset(OutRows(valid_size), CrossingEdges, EdgeRow)
    /\ (kernel = "done" /\ mesh_structure # << >>) =>
          /\ Len(vertices) = Cardinality(RequiredEdges)
          /\ Len(emit) = Len(vertices)
          /\ { EmitEdge(idx) : idx \in 0..(Len(emit) - 1) } = RequiredEdges
          /\ \A idx \in 0..(Len(emit) - 1) :
                OutRows(Len(vertices))[idx + 1] = EdgeRow(EmitEdge(idx))
          /\ SameMultiset(TrianglesAsEdges, CubeTriangles, TriangleEdges)

\* the workload of a record of emit or tri_emit
WorkloadOf(r) ==
    r.k * resolution3
       + (CHOOSE w \in 0..(resolution3 - 1) : WorkloadToCoord(w) = r.vox)

\* a mesh whose vertices and whose triangles are not in the order of the
\* workloads
C19_Witness ==
    /\ kernel = "done"
    /\ mesh_structure # << >>
    /\ Len(triangles) >= 2
    /\ \E i, j \in 1..Len(emit) :
          i < j /\ WorkloadOf(emit[i]) > WorkloadOf(emit[j])
    /\ \E i, j \in 1..Len(tri_emit) :
          i < j /\ WorkloadOf(tri_emit[i]) > WorkloadOf(tri_emit[j])

-----------------------------------------------------------------------------
(* Properties of ExtractSurfaceMesh: the vertex indices of pass 2 *)

\* the entries (position of the block, voxel, channel 0..2) that hold -1
MinusOnes ==
    { m \in (0..(Len(indices) - 1)) \X Voxels \X (0..2) :
        mesh_structure[m[1]][m[2]][m[3] + 1] = -1 }

\* the entry that pass 2 assigned the index idx to
EmitEntry(idx) ==
    <<emit[idx + 1].k, emit[idx + 1].vox, emit[idx + 1].axis>>

\* the counts and the entries during and after pass 2
VertexIndicesCounted ==
    /\ kernel = "mesh1" => vtx_count <= Cardinality(MinusOnes)
    /\ (kernel = "mesh2" /\ next = 0) =>
          /\ emit = << >>
          /\ total_vtx_count = Cardinality(MinusOnes)
          /\ \A k \in 0..(Len(indices) - 1), vox \in Voxels, e \in 0..2 :
                <<k, vox, e>> \in MinusOnes
                   <=> Marked(<<VoxelWorld(k, vox), e>>)
    /\ (kernel \in {"mesh2", "mesh3", "done"} /\ mesh_structure # << >>) =>
          /\ total_vtx_count = Cardinality(MinusOnes) + Len(emit)
          /\ vtx_count = Len(emit)
          /\ \A idx \in 0..(Len(emit) - 1) :
                /\ mesh_structure[EmitEntry(idx)[1]][EmitEntry(idx)[2]]
                                 [EmitEntry(idx)[3] + 1] = idx
                /\ \A j \in 0..(Len(emit) - 1) :
                      EmitEntry(j) = EmitEntry(idx) => j = idx
    /\ (kernel \in {"mesh3", "done"} /\ mesh_structure # << >>) =>
          /\ MinusOnes = {}
          /\ Len(emit) = total_vtx_count

\* a step after pass 0 that changes an entry of channels 0..2 replaces a -1
\* by the value of the vertex counter, which it increments
MinusOneAssigned ==
    (kernel \in {"mesh1", "mesh2", "mesh3"} /\ mesh_structure # << >>) =>
        \A k \in 0..(Len(indices) - 1), vox \in Voxels, e \in 0..2 :
            mesh_structure'[k][vox][e + 1] # mesh_structure[k][vox][e + 1] =>
                /\ kernel = "mesh2"
                /\ mesh_structure[k][vox][e + 1] = -1
                /\ mesh_structure'[k][vox][e + 1] = vtx_count
                /\ vtx_count' = vtx_count + 1
                /\ vtx_count < total_vtx_count

\* C21: total_vtx_count recorded by pass 1 is the number of entries of
\* channels 0..2 that are -1 after pass 0; pass 2 assigns to exactly those
\* entries pairwise distinct indices that together are [0, total_vtx_count),
\* and after pass 2 no channel 0..2 of any voxel is -1.
C21_VertexIndices == []VertexIndicesCounted /\ [][MinusOneAssigned]_vars

\* pass 2 has run on a grid where a voxel has two marked channels and a marked
\* voxel got the index 0, the value of the unmarked channels
C21_Witness ==
    /\ kernel = "done"
    /\ total_vtx_count >= 3
    /\ Len(emit) = total_vtx_count
    /\ \E i, j \in 0..(Len(emit) - 1) :
          /\ i # j
          /\ EmitEntry(i)[1] = EmitEntry(j)[1]
          /\ EmitEntry(i)[2] = EmitEntry(j)[2]
    /\ \E k \in 0..(Len(indices) - 1), vox \in Voxels, e \in 0..2 :
          /\ mesh_structure[k][vox][e + 1] = 0
          /\ ~Marked(<<VoxelWorld(k, vox), e>>)

-----------------------------------------------------------------------------
(* Properties of ExtractSurfaceMesh: the vertex indices of the triangles *)

\* slot vertex of the j-th triangle allocated (j from 0): the edge that
\* tri_table names for the cube type in channel 3 of the emitting voxel
TriangleTableEdge(j, vertex) ==
    tri_table(mesh_structure[tri_emit[j + 1].k][tri_emit[j + 1].vox][4])
             [tri_emit[j + 1].tri + vertex + 1]

\* the entry of mesh_structure that pass 3 reads for that slot
TriangleEntry(j, vertex) ==
    LET own == MeshOwner(tri_emit[j + 1].k, tri_emit[j + 1].vox,
                         TriangleTableEdge(j, vertex))
    IN  <<own.pos, own.vox, own.edge_i>>

\* C22: every entry of every triangle row in [0, total_tri_count) is a vertex
\* index in [0, total_vtx_count) that pass 2 allocated to the edge tri_table
\* names for the emitting cube: every such edge is set in edge_table for the
\* cube type, so it was marked in pass 0, and the triangle reads neither the
\* initial 0 of an unmarked edge nor a -1.
C22_TriangleIndices ==
    /\ \A j \in 0..(Len(tri_emit) - 1), vertex \in 0..2 :
          LET v == triangles[j + 1][(2 - vertex) + 1]
              table_idx ==
                 mesh_structure[tri_emit[j + 1].k][tri_emit[j + 1].vox][4]
          IN  /\ j < Len(triangles)
              /\ TriangleTableEdge(j, vertex) \in 0..11
              /\ Bit(edge_table(table_idx), TriangleTableEdge(j, vertex)) = 1
              /\ v \in 0..(total_vtx_count - 1)
              /\ v < Len(emit)
              /\ EmitEntry(v) = TriangleEntry(j, vertex)
    /\ (kernel = "done" /\ mesh_structure # << >>) =>
          /\ Len(triangles) = triangle_count
          /\ Len(tri_emit) = triangle_count

\* triangles were written, one of them holds the vertex index 0 (the value of
\* the channels that pass 0 left unmarked), and one reads an entry of a voxel
\* of another block
C22_Witness ==
    /\ kernel = "done"
    /\ Len(triangles) >= 2
    /\ \E j \in 0..(Len(tri_emit) - 1), vertex \in 0..2 :
          /\ triangles[j + 1][(2 - vertex) + 1] = 0
          /\ EmitEntry(0) = TriangleEntry(j, vertex)
    /\ \E j \in 0..(Len(tri_emit) - 1), vertex \in 0..2 :
          TriangleEntry(j, vertex)[1] # tri_emit[j + 1].k
    /\ \E k \in 0..(Len(indices) - 1), vox \in Voxels, e \in 0..2 :
          /\ mesh_structure[k][vox][e + 1] = 0
          /\ \A idx \in 0..(Len(emit) - 1) : EmitEntry(idx) # <<k, vox, e>>

-----------------------------------------------------------------------------
(* Properties of ExtractSurfaceMesh: the cubes that pass 0 gives up *)

\* the cube of voxel vox of the block at position k has a corner that is
\* missing or whose weight is not above weight_threshold
Aborted(k, vox) == ~CubeComplete(VoxelWorld(k, vox))

\* the sum of tri_count over the table indices in channel 3 of the voxels
\* from workload w on
RECURSIVE TrianglesFrom(_)
TrianglesFrom(w) ==
    IF w >= MeshN THEN 0
    ELSE tri_count(mesh_structure[WorkloadBlockIdx(w)]
                                 [WorkloadToCoord(WorkloadVoxelIdx(w))][4])
            + TrianglesFrom(w + 1)

ChannelTriangles == TrianglesFrom(0)

\* C23: a voxel whose cube is aborted in pass 0 keeps table index 0 in
\* channel 3, marks no edge and emits no triangle in pass 3, also when its
\* own edge channels were marked by neighbouring cubes; the final triangle
\* count is the sum of tri_count[table_idx] over the cubes not aborted
\* (after pass 0 channel 3 holds the cube type of a cube not aborted and 0
\* otherwise, and tri_count[0] = 0).
C23_AbortedCube ==
    /\ mesh_structure # << >> =>
          /\ \A k \in 0..(Len(indices) - 1), vox \in Voxels :
                mesh_structure[k][vox][4] # 0 => ~Aborted(k, vox)
          /\ \A t \in Workers :
                wk[t].pc \in {"mark", "tri"} =>
                   ~Aborted(WorkloadBlockIdx(wk[t].w),
                            WorkloadToCoord(WorkloadVoxelIdx(wk[t].w)))
          /\ Len(tri_emit) > 0 =>
                ~Aborted(tri_emit[Len(tri_emit)].k,
                         tri_emit[Len(tri_emit)].vox)
    /\ (kernel = "mesh1" /\ next = 0) =>
          \A k \in 0..(Len(indices) - 1), vox \in Voxels :
              mesh_structure[k][vox][4] =
                 IF Aborted(k, vox) THEN 0 ELSE CubeType(VoxelWorld(k, vox))
    /\ (kernel = "done" /\ mesh_structure # << >>) =>
          /\ triangle_count = ChannelTriangles
          /\ Len(triangles) = triangle_count

\* at the end a voxel of an aborted cube holds a vertex index in one of its
\* channels (a neighbouring cube marked its edge), a cube was aborted for the
\* weight of a corner alone, and triangles were emitted
C23_Witness ==
    /\ kernel = "done"
    /\ triangle_count >= 2
    /\ \E idx \in 0..(Len(emit) - 1) :
          Aborted(EmitEntry(idx)[1], EmitEntry(idx)[2])
    /\ \E k \in 0..(Len(indices) - 1), vox \in Voxels :
          /\ Aborted(k, vox)
          /\ \A i \in 0..7 : DeviceGetVoxelAt(Corner(vox, i), k) # NoVoxel

-----------------------------------------------------------------------------
(* Properties of ExtractSurfaceMesh: the size of the triangle buffer *)

\* the number of edges that carry a vertex in a cube of type table_idx
EdgeCount(table_idx) ==
    Cardinality({ e \in 0..11 : Bit(edge_table(table_idx), e) = 1 })

-----------------------------------------------------------------------------
(* Properties of EstimateRange: the pre-fill and the fragments *)

Pixels == (0..(w_down - 1)) \X (0..(h_down - 1))

\* the values pass 0.5 stores in a pixel
PreFill == <<camera.depth_max, camera.depth_min>>

\* the pixel uv is inside the rectangle of a row that pass 1 rasterises
Rasterised(uv) ==
    \E i \in 1..frag_count :
        /\ fragment_buffer[i].u_min <= uv[1] /\ uv[1] <= fragment_buffer[i].u_max
        /\ fragment_buffer[i].v_min <= uv[2] /\ uv[2] <= fragment_buffer[i].v_max

\* the map while and after pass 1 runs
PreFilled ==
    /\ (kernel = "range1" /\ next = 0) =>
          \A uv \in Pixels : range_minmax_map[uv] = PreFill
    /\ (kernel \in {"range1", "done"} /\ range_minmax_map # << >>) =>
          \A uv \in Pixels :
              /\ range_minmax_map[uv] # Unwritten
              /\ range_minmax_map[uv][1] <= camera.depth_max
              /\ range_minmax_map[uv][2] >= camera.depth_min
              /\ ~Rasterised(uv) => range_minmax_map[uv] = PreFill

\* a step of pass 1 lowers or keeps the near value and raises or keeps the
\* far value of every pixel; no step of pass 0 writes the map
Widened ==
    /\ kernel = "range1" =>
          \A uv \in Pixels :
              /\ range_minmax_map'[uv][1] <= range_minmax_map[uv][1]
              /\ range_minmax_map'[uv][2] >= range_minmax_map[uv][2]
    /\ kernel = "range0" => range_minmax_map' = range_minmax_map

\* C24: every pixel of range_minmax holds (depth_max, depth_min) before any
\* fragment is rasterised; a pixel covered by no fragment keeps exactly that
\* pair, and rasterisation only lowers the near value and raises the far
\* value of a pixel.
C24_PreFillWidened == []PreFilled /\ [][Widened]_vars

\* at the end a pixel holds the pre-fill, a pixel was widened at both ends,
\* and a pixel is inside two rasterised rows with different depth ranges
C24_Witness ==
    /\ kernel = "done"
    /\ range_minmax_map # << >>
    /\ \E uv \in Pixels : range_minmax_map[uv] = PreFill
    /\ \E uv \in Pixels :
          /\ range_minmax_map[uv][1] < camera.depth_max
          /\ range_minmax_map[uv][2] > camera.depth_min
    /\ \E uv \in Pixels, i, j \in 1..frag_count :
          /\ fragment_buffer[i].z_min < fragment_buffer[j].z_min
          /\ fragment_buffer[i].u_min = uv[1] /\ fragment_buffer[j].u_min = uv[1]
          /\ fragment_buffer[i].v_min = uv[2] /\ fragment_buffer[j].v_min = uv[2]


\* the pixels of a rectangle with the fields u_min, u_max, v_min, v_max
RectPixels(r) == (r.u_min..r.u_max) \X (r.v_min..r.v_max)

\* the offsets of the fragments that block w has emitted
EmittedOffsets(w) == { e.offset : e \in { f \in frag_emit : f.w = w } }

\* the fragments that block w has emitted are tiles of its rectangle r
Tiles(w, r) ==
    \A o \in EmittedOffsets(w) :
        LET f == Fragment(r, o)
        IN  /\ o \in 0..(block_frag_count(r) - 1)
            /\ f.u_max - f.u_min + 1 \in 1..fragment_size
            /\ f.v_max - f.v_min + 1 \in 1..fragment_size
            /\ RectPixels(f) \subseteq RectPixels(r)
            /\ \A q \in EmittedOffsets(w) \ {o} :
                  RectPixels(f) \cap RectPixels(Fragment(r, q)) = {}

\* C25: the fragments that pass 0 emits for a retained block tile its clipped
\* rectangle: each is at most fragment_size x fragment_size pixels and lies
\* inside [u_min, u_max] x [v_min, v_max], which is inside the downsampled
\* image; the fragments of one block are pairwise disjoint and their union is
\* the whole rectangle. (Stated while pass 0 runs and when it is complete:
\* no later pass emits a fragment.)
C25_FragmentsTile ==
    (kernel = "range0" \/ (kernel = "range05" /\ next = 0)) =>
        /\ \A e \in frag_emit : e.w \in Retained
        /\ \A w \in Retained :
              LET r == BlockRect(block_keys[w])
              IN  /\ 0 <= r.u_min /\ r.u_max <= w_down - 1
                  /\ 0 <= r.v_min /\ r.v_max <= h_down - 1
                  /\ Tiles(w, r)
                  /\ kernel = "range05" =>
                        /\ EmittedOffsets(w) = 0..(block_frag_count(r) - 1)
                        /\ UNION { RectPixels(Fragment(r, o)) :
                                     o \in EmittedOffsets(w) }
                              = RectPixels(r)

\* a retained block whose rectangle starts at the border of the image and
\* whose last fragment is smaller than fragment_size, next to a block that was
\* discarded
C25_Witness ==
    /\ kernel = "done"
    /\ Retained # DOMAIN block_keys
    /\ \E w \in Retained :
          LET r == BlockRect(block_keys[w])
          IN  /\ block_frag_count(r) >= 2
              /\ r.u_min = 0
              /\ EmittedOffsets(w) = 0..(block_frag_count(r) - 1)
              /\ \E o \in EmittedOffsets(w) :
                    Fragment(r, o).u_max - Fragment(r, o).u_min + 1
                       < fragment_size


-----------------------------------------------------------------------------
(* Properties of RayCast: the march *)

\* the pixel of a workload
PixelOf(i) == <<i % camera.w, i \div camera.w>>

\* the voxel looked up by the marching worker w, NoVoxel without a block
Sampled(w) ==
    GetVoxelAtT(PixelOf(wk[w].w)[1], PixelOf(wk[w].w)[2], wk[w].loc[1])

\* the lookup of the marching worker w detects a crossing: tsdf_prev > 0,
\* weight >= weight_threshold, tsdf <= 0
CrossingDetected(w) ==
    /\ Sampled(w) # NoVoxel
    /\ wk[w].loc[3] > 0
    /\ Deref(Sampled(w)).weight >= weight_threshold
    /\ Deref(Sampled(w)).tsdf <= 0

\* the maps of RayCast
RayMaps == <<depth_map, vertex_map, color_map, normal_map>>

\* a marching worker has made fewer than max_steps lookups, two workers never
\* march on one pixel, and the pixel of a march or of a workload not yet taken
\* holds no crossing
MarchBounded ==
    kernel = "raycast" =>
        /\ \A w \in Workers : wk[w].pc = "march" =>
              /\ wk[w].loc[4] \in 0..(camera.max_steps - 1)
              /\ wk[w].w < next
              /\ \A v \in Workers \ {w} :
                    wk[v].pc = "march" => wk[v].w # wk[w].w
              /\ \A i \in 1..4 :
                    RayMaps[i] # << >> =>
                        RayMaps[i][PixelOf(wk[w].w)] = Unwritten
        /\ \A p \in next..(camera.h * camera.w - 1), i \in 1..4 :
              RayMaps[i] # << >> => RayMaps[i][PixelOf(p)] = Unwritten

\* a lookup of worker w: on a crossing the enabled depth and vertex entries of
\* the pixel are written and the march is over; otherwise nothing is written
\* and the march goes on with one more step counted, or is over at max_steps
LookupCounted(w) ==
    (wk[w].pc = "march" /\ wk'[w] # wk[w]) =>
        LET xy == PixelOf(wk[w].w)
        IN  IF CrossingDetected(w)
            THEN /\ wk'[w] = IdleWk
                 /\ enable_depth => depth_map'[xy] # Unwritten
                 /\ enable_vertex => vertex_map'[xy] # Unwritten
            ELSE /\ RayMaps' = RayMaps
                 /\ IF wk[w].loc[4] + 1 < camera.max_steps
                    THEN /\ wk'[w].pc = "march"
                         /\ wk'[w].w = wk[w].w
                         /\ wk'[w].loc[4] = wk[w].loc[4] + 1
                    ELSE wk'[w] = IdleWk

\* an entry that holds a crossing is not written again
WrittenOnce ==
    \A i \in 1..4 : \A xy \in DOMAIN RayMaps[i] :
        RayMaps[i][xy] # Unwritten => RayMaps'[i][xy] = RayMaps[i][xy]

\* C26: the march of a pixel makes at most max_steps lookups (a lookup that
\* finds no block counts), and once a lookup detects a crossing (tsdf_prev > 0,
\* weight >= weight_threshold, tsdf <= 0) the outputs are written once and the
\* march takes no further step.
C26_MarchTerminates ==
    /\ []MarchBounded
    /\ [][(\A w \in Workers : LookupCounted(w)) /\ WrittenOnce]_vars

\* the crossing of one pixel is written while another march, which has counted
\* a lookup without a block, goes on
C26_Witness ==
    /\ kernel = "raycast"
    /\ \E xy \in DOMAIN depth_map : depth_map[xy] # Unwritten
    /\ \E w \in Workers :
          /\ wk[w].pc = "march"
          /\ wk[w].loc[4] > 0
          /\ wk[w].loc[1] = wk[w].loc[2] + block_size

\* a step of worker w after which its march goes on: t_prev is the t of the
\* lookup, and t has grown by block_size without a block, else by
\* tsdf * sdf_trunc, or by voxel_size where that is smaller
StepForward(w) ==
    (wk[w].pc = "march" /\ wk'[w].pc = "march" /\ wk'[w] # wk[w]) =>
        LET t == wk[w].loc[1]
            delta == Deref(Sampled(w)).tsdf
        IN  /\ wk'[w].loc[2] = t
            /\ wk'[w].loc[1] > t
            /\ wk'[w].loc[1] - t =
                  IF Sampled(w) = NoVoxel THEN block_size
                  ELSE IF delta < voxel_size THEN voxel_size ELSE delta
            /\ wk'[w].loc[1] - t >= voxel_size

\* t_prev <= t in every march
NeverBackward ==
    \A w \in Workers : wk[w].pc = "march" => wk[w].loc[2] <= wk[w].loc[1]

\* C27: a step that does not end the march increases t, by block_size when
\* the block is absent and else by max(voxel_size, tsdf * sdf_trunc), which is
\* at least voxel_size also for tsdf < 0; t_prev <= t holds throughout.
C27_StrictlyForward ==
    /\ []NeverBackward
    /\ [][\A w \in Workers : StepForward(w)]_vars

\* a march went on by voxel_size from a sample with tsdf < 0
C27_Witness ==
    /\ kernel = "raycast"
    /\ \E w \in Workers :
          /\ wk[w].pc = "march"
          /\ wk[w].loc[3] < 0
          /\ wk[w].loc[1] = wk[w].loc[2] + voxel_size


\* the step writes an entry of the pixel of the marching worker w
Reports(w) ==
    /\ wk[w].pc = "march"
    /\ \E i \in 1..4 :
          /\ RayMaps[i] # << >>
          /\ RayMaps'[i][PixelOf(wk[w].w)] # RayMaps[i][PixelOf(wk[w].w)]

\* C28: a crossing is reported only at a sample whose voxel was integrated
\* (weight > 0), whatever weight_threshold >= 0 is, also in an allocated block
\* whose voxel is uninitialised.
C28_ObservedCrossing ==
    [][\A w \in Workers :
          Reports(w) => /\ Sampled(w) # NoVoxel
                        /\ Deref(Sampled(w)).weight > 0]_vars

\* with weight_threshold = 0 the depth map holds a crossing at the first
\* sample of an allocated block, in a voxel of weight 0 (tsdf = 0, so
\* t_intersect is the t of the sample)
C28_Witness ==
    /\ kernel = "done"
    /\ weight_threshold = 0
    /\ \E xy \in DOMAIN depth_map :
          /\ depth_map[xy] # Unwritten
          /\ IntersectAt(xy).den > 0
          /\ IntersectAt(xy).num % IntersectAt(xy).den = 0
          /\ LET p == GetVoxelAtT(xy[1], xy[2],
                                  IntersectAt(xy).num \div IntersectAt(xy).den)
             IN  /\ p # NoVoxel
                 /\ Deref(p).weight = 0
                 /\ Deref(p).tsdf = 0


\* an entry of a map changes only in the step of the march of its pixel that
\* detects a crossing, which is the last step of that march
WrittenByCrossing ==
    \A i \in 1..4 : \A xy \in DOMAIN RayMaps[i] :
        RayMaps'[i][xy] # RayMaps[i][xy] =>
            \E w \in Workers :
                /\ wk[w].pc = "march"
                /\ PixelOf(wk[w].w) = xy
                /\ CrossingDetected(w)
                /\ wk'[w] = IdleWk

\* the step that ends a march without a crossing changes no map
MissEnds ==
    \A w \in Workers :
        (wk[w].pc = "march" /\ wk'[w] = IdleWk /\ ~CrossingDetected(w))
            => /\ wk[w].loc[4] = camera.max_steps - 1
               /\ RayMaps' = RayMaps

\* during its march, and before it, the entries of a pixel are the caller's
CallerValues ==
    kernel = "raycast" =>
        \A p \in 0..(camera.h * camera.w - 1), i \in 1..4 :
            (/\ RayMaps[i] # << >>
             /\ \/ p >= next
                \/ \E w \in Workers : wk[w].pc = "march" /\ wk[w].w = p)
                => RayMaps[i][PixelOf(p)] = Unwritten

\* C29: a pixel whose march finds no crossing within max_steps is written
\* nowhere: its entries of the depth, vertex, colour and normal maps keep the
\* values the caller passed.
C29_MissKeepsValues ==
    /\ []CallerValues
    /\ [][WrittenByCrossing /\ MissEnds]_vars

\* a call with the vertex and colour maps enabled has ended and every march
\* was a miss: the maps hold the caller's values
C29_Witness ==
    /\ kernel = "done"
    /\ enable_vertex /\ enable_color
    /\ camera.max_steps > 0
    /\ \A xy \in DOMAIN vertex_map :
          vertex_map[xy] = Unwritten /\ color_map[xy] = Unwritten

====
